---------------------------- MODULE Spec2Model ----------------------------
(***************************************************************************)
(* A model of the optimisation core of the EV hub optimisation project     *)
(* (src/src/optimization.py): the coverage evaluator, the weighted K-Means *)
(* wrapper, the population-weighted baseline generator with its rejection  *)
(* sampler, as state machines over a small discrete world.                 *)
(*                                                                         *)
(* The world.  Space is a strip of GridW unit cells.  Coordinates are      *)
(* lattice numbers: cell c spans x in [2c, 2c+2], y in [0, 2], so that its *)
(* centre (2c+1, 1) and its edges are lattice points.  A polygon is a set  *)
(* of cells together with its bounding box; its area is the number of its  *)
(* cells times the area of one cell.  Floating point numbers are modelled  *)
(* as exact rationals <<n, d>> (d > 0, lowest terms) extended with the     *)
(* IEEE values NaN = <<0,0>>, +inf = <<1,0>> and -inf = <<-1,0>>.          *)
(***************************************************************************)
EXTENDS Integers, Sequences, FiniteSets, TLC

VARIABLES
    gdf,        \* the caller's zone table (GeoDataFrame)
    pc,         \* position of the running call
    ab,         \* locals of run_ab_simulation
    ev,         \* locals of evaluate_coverage
    km,         \* locals of weighted_kmeans_optimization
    bl,         \* locals of generate_population_weighted_locations / random_point_in_polygon
    ret,        \* value returned (or error raised) by the last completed call
    history,    \* completed calls of the session: <<[op, args, ret]>>
    entropy     \* state of the operating system's entropy source (unseeded generators)

vars == <<gdf, pc, ab, ev, km, bl, ret, history, entropy>>

-----------------------------------------------------------------------------
(* Bounds of the model *)

GridW == 4            \* number of cells of the strip
MaxWeight == 2        \* largest weight value of a zone
MaxHubs == 2          \* largest hub set handed to evaluate_coverage
MetersPerUnit == 250  \* metres (planar CRS) per lattice unit (geographic CRS)

(* Program constants, src/src/config.py *)

COVERAGE_RADIUS_M == 500
KMEANS_N_INIT == 10
KMEANS_RANDOM_STATE == 42
BASELINE_SEED == 42
TARGET_CRS == "EPSG:4326"
BUFFER_CRS == "EPSG:3857"
COL_GEOMETRY == "geometry"
COL_TOTAL_VEHICLES == "Total_Vehicles"
COL_DEMAND_SCORE == "Demand_Score"
COL_UNMET_DEMAND == "Unmet_Demand"

None == "None"

\* no call has returned yet
NoResult == [none |-> TRUE]

-----------------------------------------------------------------------------
(* Floating point numbers as extended rationals *)

Abs(n) == IF n < 0 THEN -n ELSE n

RECURSIVE Gcd(_, _)
Gcd(a, b) == IF b = 0 THEN a ELSE Gcd(b, a % b)

\* the rational n/d, d # 0, in lowest terms with a positive denominator
Rat(n, d) ==
    LET s == IF d < 0 THEN -1 ELSE 1
        g == Gcd(Abs(n), Abs(d))
    IN  <<(s * n) \div g, (s * d) \div g>>

F(n) == <<n, 1>>
NaN == <<0, 0>>
PosInf == <<1, 0>>
NegInf == <<-1, 0>>

IsNaN(x) == x = NaN
IsFinite(x) == x[2] # 0

\* x <= y and x < y of IEEE numbers: false when either is NaN
FLe(x, y) ==
    /\ ~IsNaN(x) /\ ~IsNaN(y)
    /\ IF IsFinite(x) /\ IsFinite(y) THEN x[1] * y[2] <= y[1] * x[2]
       ELSE IF IsFinite(x) THEN y = PosInf
       ELSE IF IsFinite(y) THEN x = NegInf
       ELSE x[1] <= y[1]
FLt(x, y) == FLe(x, y) /\ x # y

\* x + y, x - y, x * y on finite numbers; NaN propagates
FAdd(x, y) ==
    IF ~IsFinite(x) \/ ~IsFinite(y) THEN NaN
    ELSE Rat(x[1] * y[2] + y[1] * x[2], x[2] * y[2])
FSub(x, y) ==
    IF ~IsFinite(x) \/ ~IsFinite(y) THEN NaN
    ELSE Rat(x[1] * y[2] - y[1] * x[2], x[2] * y[2])
FMul(x, y) ==
    IF ~IsFinite(x) \/ ~IsFinite(y) THEN NaN
    ELSE Rat(x[1] * y[1], x[2] * y[2])

\* x / y as numpy divides floats: 0/0 is NaN, x/0 is +-inf, no exception
FDiv(x, y) ==
    IF ~IsFinite(x) \/ ~IsFinite(y) THEN NaN
    ELSE IF y[1] = 0
         THEN (IF x[1] = 0 THEN NaN ELSE IF x[1] > 0 THEN PosInf ELSE NegInf)
         ELSE Rat(x[1] * y[2], x[2] * y[1])

FMax(x, y) == IF FLe(x, y) THEN y ELSE x
FMin(x, y) == IF FLe(x, y) THEN x ELSE y

\* Series.fillna(v)
FillNa(x, v) == IF IsNaN(x) THEN v ELSE x

\* Series.clip(lo, hi): NaN stays NaN
Clip(x, lo, hi) == IF IsNaN(x) THEN x ELSE FMin(FMax(x, lo), hi)

\* Series.sum(): NaN entries are skipped
RECURSIVE SumSkipNa(_)
SumSkipNa(s) ==
    IF s = <<>> THEN F(0)
    ELSE CHOOSE r \in
             { FAdd(FillNa(h, F(0)), t) : h \in {Head(s)}, t \in {SumSkipNa(Tail(s))} } : TRUE

\* numpy.sum over an array: NaN and infinities propagate
RECURSIVE NpSum(_)
NpSum(s) ==
    IF s = <<>> THEN F(0)
    ELSE CHOOSE r \in
             { IF IsFinite(h) /\ IsFinite(t) THEN FAdd(h, t)
               ELSE IF IsNaN(h) \/ IsNaN(t) THEN NaN
               ELSE IF IsFinite(h) THEN t
               ELSE IF IsFinite(t) \/ h = t THEN h
               ELSE NaN
               : h \in {Head(s)}, t \in {NpSum(Tail(s))} } : TRUE


-----------------------------------------------------------------------------
(* Geometry: polygons, points, disks *)

Cells == 0 .. (GridW - 1)

SetMin(S) == CHOOSE m \in S : \A x \in S : m <= x
SetMax(S) == CHOOSE m \in S : \A x \in S : x <= m

\* a valid polygon made of a non-empty set of cells, in lattice units
Polygon(cells) ==
    [cells |-> cells, scale |-> 1,
     bounds |-> <<2 * SetMin(cells), 0, 2 * SetMax(cells) + 2, 2>>]

\* a degenerate (zero-area) polygon: the vertical segment x = at
Sliver(at) == [cells |-> {}, scale |-> 1, bounds |-> <<at, 0, at, 2>>]

\* GeoSeries.area
Area(g) == F(Cardinality(g.cells) * (2 * g.scale) * (2 * g.scale))

\* the centre of cell c of a geometry, in the geometry's own units
CellCentre(g, c) == <<F((2 * c + 1) * g.scale), F(g.scale)>>

\* squared distance of two points <<x, y>>
Dist2(p, q) ==
    FAdd(FMul(FSub(p[1], q[1]), FSub(p[1], q[1])),
         FMul(FSub(p[2], q[2]), FSub(p[2], q[2])))

\* GeoSeries.buffer(radius): the disk around a point
Buffer(p, radius) == [centre |-> p, radius |-> radius]

\* the part of polygon g inside a disk: the cells whose centre the disk holds
Intersection(g, disk) ==
    [g EXCEPT !.cells =
        {c \in g.cells :
            FLe(Dist2(CellCentre(g, c), disk.centre), F(disk.radius * disk.radius))}]

\* GeoSeries.to_crs between the geographic and the planar frame
Reproject(g, from, to) ==
    IF from = to THEN g
    ELSE IF to = BUFFER_CRS
         THEN [g EXCEPT !.scale = g.scale * MetersPerUnit,
                        !.bounds = [k \in 1..4 |-> g.bounds[k] * MetersPerUnit]]
         ELSE [g EXCEPT !.scale = g.scale \div MetersPerUnit,
                        !.bounds = [k \in 1..4 |-> g.bounds[k] \div MetersPerUnit]]

\* a point <<x, y>> taken from the geographic to the planar frame
ReprojectPoint(p) == <<FMul(p[1], F(MetersPerUnit)), FMul(p[2], F(MetersPerUnit))>>

-----------------------------------------------------------------------------
(* The zone table *)

\* GeoDataFrame.to_crs: a new table, the caller's one is left alone
to_crs(tbl, crs) ==
    [tbl EXCEPT !.crs = crs,
                !.rows = [i \in 1..Len(tbl.rows) |->
                    [tbl.rows[i] EXCEPT !.geometry = Reproject(@, tbl.crs, crs)]]]

\* GeoDataFrame.set_crs: a new table carrying the label
set_crs(tbl, crs) == [tbl EXCEPT !.crs = crs]

\* a column of the table as a sequence
Column(tbl, col) == [i \in 1..Len(tbl.rows) |-> tbl.rows[i][col]]


\* the centroid <<x, y>> of a geometry, in its own units
Centroid(g) ==
    IF g.cells = {}
    THEN <<Rat(g.bounds[1] + g.bounds[3], 2), Rat(g.bounds[2] + g.bounds[4], 2)>>
    ELSE LET RECURSIVE SumX(_)
             SumX(S) == IF S = {} THEN 0
                        ELSE LET c == CHOOSE c \in S : TRUE
                             IN  (2 * c + 1) * g.scale + SumX(S \ {c})
         IN  <<Rat(SumX(g.cells), Cardinality(g.cells)), F(g.scale)>>

\* one row of the table as the preprocessing collaborator assembles it:
\* lat/lng are the zone's centroid
Row(g, demand, vehicles, unmet) ==
    [geometry |-> g, Demand_Score |-> demand, Total_Vehicles |-> vehicles,
     Unmet_Demand |-> unmet, lat |-> Centroid(g)[2], lng |-> Centroid(g)[1]]

AllColumns ==
    {COL_GEOMETRY, COL_DEMAND_SCORE, COL_TOTAL_VEHICLES, COL_UNMET_DEMAND, "lat", "lng"}

Table(crs, geoms, demand, vehicles, unmet) ==
    [crs |-> crs, columns |-> AllColumns,
     rows |-> [i \in 1..Len(geoms) |-> Row(geoms[i], demand[i], vehicles[i], unmet[i])]]

\* DataFrame.drop(columns=[col]): a new table without the column
DropColumn(tbl, col) ==
    [tbl EXCEPT !.columns = @ \ {col},
                !.rows = [i \in 1..Len(tbl.rows) |->
                    [f \in (DOMAIN tbl.rows[i]) \ {col} |-> tbl.rows[i][f]]]]

-----------------------------------------------------------------------------
(* evaluate_coverage, src/src/optimization.py:182-262 *)

\* lines 214-222: the hubs as points (x = lng, y = lat), reprojected, buffered
Buffers(hub_locations, radius_m) ==
    [h \in 1..Len(hub_locations) |->
        Buffer(ReprojectPoint(<<hub_locations[h][2], hub_locations[h][1]>>), radius_m)]

\* the coverage kept as a percentage: the ratio times 100, clipped to [0, 100]
CoveragePctAsPercent(intersection_area, barrio_area) ==
    Clip(FillNa(FMul(FDiv(intersection_area, barrio_area), F(100)), F(0)), F(0), F(100))

\* line 232: one zone's coverage by one disk
CoveragePct(intersection_area, barrio_area) ==
    Clip(FillNa(FDiv(intersection_area, barrio_area), F(0)), F(0), F(1))

\* lines 229-232: every zone's coverage by one disk
CoverageOfBuffer(barrios_m, barrio_areas, buffer_geom) ==
    [z \in 1..Len(barrios_m.rows) |->
        CoveragePct(Area(Intersection(barrios_m.rows[z].geometry, buffer_geom)),
                    barrio_areas[z])]

\* the coverage of overlapping hubs added up instead of the largest kept
TrackSum(max_coverage, coverage_pct) ==
    [z \in 1..Len(max_coverage) |-> FAdd(max_coverage[z], coverage_pct[z])]

\* the coverage by the latest hub kept instead of the largest
TrackLatest(max_coverage, coverage_pct) ==
    [z \in 1..Len(max_coverage) |-> coverage_pct[z]]

\* line 235: np.maximum(max_coverage, coverage_pct.values)
TrackMaximum(max_coverage, coverage_pct) ==
    [z \in 1..Len(max_coverage) |-> FMax(max_coverage[z], coverage_pct[z])]

\* the threshold read as a percentage: np.sum(max_coverage > 50)
CoveredNeighborhoodsOverFifty(max_coverage) ==
    Cardinality({z \in 1..Len(max_coverage) : FLt(F(50), max_coverage[z])})

\* line 238: np.sum(max_coverage > 0.5)
CoveredNeighborhoods(max_coverage) ==
    Cardinality({z \in 1..Len(max_coverage) : FLt(Rat(1, 2), max_coverage[z])})

\* line 239: np.mean(max_coverage) * 100
AvgCoverage(max_coverage) ==
    FMul(FDiv(NpSum(max_coverage), F(Len(max_coverage))), F(100))

\* the covered weight divided by the number of zones instead of the total weight
WeightedCoveragePctPerZone(weights, max_coverage) ==
    LET total == F(Len(weights))
        covered == SumSkipNa([z \in 1..Len(weights) |-> FMul(weights[z], max_coverage[z])])
    IN  IF FLt(F(0), total) THEN FMul(FDiv(covered, total), F(100)) ELSE F(0)

\* the share computed without the guard on a zero total
WeightedCoveragePctUnguarded(weights, max_coverage) ==
    LET total == SumSkipNa(weights)
        covered == SumSkipNa([z \in 1..Len(weights) |-> FMul(weights[z], max_coverage[z])])
    IN  FMul(FDiv(covered, total), F(100))

\* lines 243-245 and 251-253: the share of a weight column that is covered
WeightedCoveragePct(weights, max_coverage) ==
    LET total == SumSkipNa(weights)
        covered == SumSkipNa([z \in 1..Len(weights) |-> FMul(weights[z], max_coverage[z])])
    IN  IF FLt(F(0), total) THEN FMul(FDiv(covered, total), F(100)) ELSE F(0)

\* lines 241-247
DemandCoveragePct(gdf_barrios, max_coverage) ==
    IF COL_DEMAND_SCORE \in gdf_barrios.columns
    THEN WeightedCoveragePct(Column(gdf_barrios, COL_DEMAND_SCORE), max_coverage)
    ELSE F(0)

\* the population metric guarded by the presence of both weight columns
PopulationCoveragePctBothColumns(gdf_barrios, max_coverage) ==
    IF COL_DEMAND_SCORE \in gdf_barrios.columns /\ COL_TOTAL_VEHICLES \in gdf_barrios.columns
    THEN WeightedCoveragePct(Column(gdf_barrios, COL_TOTAL_VEHICLES), max_coverage)
    ELSE F(0)

\* lines 249-255
PopulationCoveragePct(gdf_barrios, max_coverage) ==
    IF COL_TOTAL_VEHICLES \in gdf_barrios.columns
    THEN WeightedCoveragePct(Column(gdf_barrios, COL_TOTAL_VEHICLES), max_coverage)
    ELSE F(0)

\* lines 237-262: the report
CoverageReport(gdf_barrios, max_coverage) ==
    [covered_neighborhoods |-> CoveredNeighborhoods(max_coverage),
     avg_coverage |-> AvgCoverage(max_coverage),
     demand_covered |-> DemandCoveragePct(gdf_barrios, max_coverage),
     population_covered |-> PopulationCoveragePct(gdf_barrios, max_coverage)]

NoLocals == [op |-> None]

\* lines 204-225: the call, up to the loop
EvalEnter(tbl, hub_locations, radius_m) ==
    LET gdf_barrios == IF tbl.crs = None THEN set_crs(tbl, TARGET_CRS) ELSE tbl
        barrios_m == to_crs(gdf_barrios, BUFFER_CRS)
    IN  [op |-> "evaluate_coverage",
         arg_gdf |-> tbl,
         hub_locations |-> hub_locations,
         gdf_barrios |-> gdf_barrios,
         barrios_m |-> barrios_m,
         barrio_areas |-> [z \in 1..Len(barrios_m.rows) |-> Area(barrios_m.rows[z].geometry)],
         buffers |-> Buffers(hub_locations, radius_m),
         i |-> 1,
         max_coverage |-> [z \in 1..Len(barrios_m.rows) |-> F(0)]]

\* lines 227-235: one turn of the loop over the buffers
EvalLoopBody(e) ==
    [e EXCEPT !.max_coverage =
                  TrackMaximum(@, CoverageOfBuffer(e.barrios_m, e.barrio_areas, e.buffers[e.i])),
              !.i = @ + 1]

-----------------------------------------------------------------------------
(* Pseudo-random generators: numpy.random.default_rng(seed), random.Random(seed) *)
(* and sklearn's random_state are seeded streams; the stream is a linear          *)
(* congruential sequence over RngModulus states.                                  *)

RngModulus == 16

\* the number of states the operating system's entropy source is seen in
EntropyStates == 2

\* a generator that starts from the entropy of the operating system, the
\* seed not being used
SeedFromEntropy(seed) == entropy % RngModulus

\* the state a generator built from a seed starts in
RngSeed(seed) == seed % RngModulus

\* the state after one draw
RngNext(s) == (5 * s + 3) % RngModulus

-----------------------------------------------------------------------------
(* sklearn.cluster.KMeans, as weighted_kmeans_optimization uses it *)

\* what a call ends with: a returned value or a raised exception
Ok(v) == [value |-> v]
Error(kind) == [error |-> kind]
IsError(r) == "error" \in DOMAIN r

\* a sequence without its j-th element
Without(s, j) == [i \in 1 .. (Len(s) - 1) |-> IF i < j THEN s[i] ELSE s[i + 1]]

\* the seeding of one run: k distinct samples drawn with the generator
RECURSIVE PickInit(_, _, _)
PickInit(remaining, k, s) ==
    IF k = 0 THEN [picked |-> <<>>, rng |-> s]
    ELSE LET j == (s % Len(remaining)) + 1
         IN  CHOOSE p \in
                 { [picked |-> <<remaining[j]>> \o r.picked, rng |-> r.rng]
                   : r \in {PickInit(Without(remaining, j), k - 1, RngNext(s))} } : TRUE

\* the index of the centre nearest to point x (the first one among equals)
Nearest(x, centres) ==
    SetMin({j \in 1..Len(centres) :
               \A l \in 1..Len(centres) : FLe(Dist2(x, centres[j]), Dist2(x, centres[l]))})

Labels(X, centres) == [i \in 1..Len(X) |-> Nearest(X[i], centres)]

\* the weighted sum of the samples of cluster j, not divided by their weight
WeightedSum(X, w, labels, centres, j) ==
    LET members == [i \in 1..Len(X) |-> IF labels[i] = j THEN w[i] ELSE F(0)]
    IN  CHOOSE c \in
            { IF total = F(0) THEN centres[j]
              ELSE << NpSum([i \in 1..Len(X) |-> FMul(members[i], X[i][1])]),
                      NpSum([i \in 1..Len(X) |-> FMul(members[i], X[i][2])]) >>
              : total \in {NpSum(members)} } : TRUE

\* the weighted mean of the samples of cluster j; a cluster without weight
\* keeps its centre
NewCentre(X, w, labels, centres, j) ==
    LET members == [i \in 1..Len(X) |-> IF labels[i] = j THEN w[i] ELSE F(0)]
    IN  CHOOSE c \in
            { IF total = F(0) THEN centres[j]
              ELSE << FDiv(NpSum([i \in 1..Len(X) |-> FMul(members[i], X[i][1])]), total),
                      FDiv(NpSum([i \in 1..Len(X) |-> FMul(members[i], X[i][2])]), total) >>
              : total \in {NpSum(members)} } : TRUE

\* one turn of Lloyd's iteration: label the samples, move the centres
LloydStep(X, w, centres) ==
    CHOOSE next \in
        { [j \in 1..Len(centres) |-> NewCentre(X, w, labels, centres, j)]
          : labels \in {Labels(X, centres)} } : TRUE

\* Lloyd's iteration to a fixed point (at most max_iter = 300 turns)
RECURSIVE Lloyd(_, _, _, _)
Lloyd(X, w, centres, iter) ==
    CHOOSE result \in
        { IF next = centres \/ iter >= 300 THEN next ELSE Lloyd(X, w, next, iter + 1)
          : next \in {LloydStep(X, w, centres)} } : TRUE

\* the weighted within-cluster sum of squares
Inertia(X, w, centres) ==
    NpSum([i \in 1..Len(X) |-> FMul(w[i], Dist2(X[i], centres[Nearest(X[i], centres)]))])

\* one run: seeding, iteration, inertia
OneRun(X, w, k, s) ==
    CHOOSE r \in
        { CHOOSE r2 \in
              { [centres |-> centres, inertia |-> Inertia(X, w, centres), rng |-> init.rng]
                : centres \in {Lloyd(X, w, [j \in 1..k |-> X[init.picked[j]]], 1)} } : TRUE
          : init \in {PickInit([i \in 1..Len(X) |-> i], k, s)} } : TRUE

\* the runs run .. n_init, each seeded from the stream; the first run of
\* lowest inertia is kept
RECURSIVE BestRun(_, _, _, _, _, _, _)
BestRun(X, w, k, n_init, run, s, best) ==
    IF run > n_init THEN best.centres
    ELSE CHOOSE result \in
             { BestRun(X, w, k, n_init, run + 1, r.rng,
                       IF best = <<>> \/ FLt(r.inertia, best.inertia) THEN r ELSE best)
               : r \in {OneRun(X, w, k, s)} } : TRUE

\* KMeans(n_clusters, random_state, n_init).fit(X, sample_weight).cluster_centers_
KMeansFit(X, sample_weight, n_clusters, random_state, n_init) ==
    IF n_clusters < 1 THEN Error("InvalidParameterError")
    ELSE IF Len(X) < n_clusters THEN Error("ValueError")
    ELSE Ok(BestRun(X, sample_weight, n_clusters, n_init, 1, RngSeed(random_state), <<>>))

-----------------------------------------------------------------------------
(* weighted_kmeans_optimization, src/src/optimization.py:19-57 *)

\* more clusters requested than there are points: the request is kept as it is
KeepClusters(n_clusters, coordinates) == n_clusters

\* line 40
ClampClusters(n_clusters, coordinates) ==
    IF n_clusters <= Len(coordinates) THEN n_clusters ELSE Len(coordinates)

\* line 44: np.maximum(weights, 0)
NonNegative(weights) == [i \in 1..Len(weights) |-> FMax(weights[i], F(0))]

\* weights of sum 0 are handed on as they are
KeepWeights(weights) == weights

\* lines 46-47: uniform weights when the weights sum to 0
UniformIfZero(weights) ==
    IF NpSum(weights) = F(0) THEN [i \in 1..Len(weights) |-> F(1)] ELSE weights

-----------------------------------------------------------------------------
(* random_point_in_polygon, src/src/optimization.py:96-130 *)

MaxAttempts == 1000

\* the point lies in the polygon or on its boundary
Covers(g, x, y) ==
    /\ 0 <= y /\ y <= 2 * g.scale
    /\ \E c \in g.cells : 2 * c * g.scale <= x /\ x <= (2 * c + 2) * g.scale

\* polygon.contains(Point(x, y)): the point lies in the interior of the polygon
Contains(g, x, y) ==
    /\ 0 < y /\ y < 2 * g.scale
    /\ \E c \in g.cells :
          \/ 2 * c * g.scale < x /\ x < (2 * c + 2) * g.scale
          \/ x = 2 * c * g.scale /\ (c - 1) \in g.cells

\* py_rng.uniform(a, b) drawn in generator state s: a lattice number of [a, b]
Uniform(a, b, s) == a + (s % (b - a + 1))

\* lines 111-114: a generator left unseeded starts from the entropy of the
\* operating system
UnseededGenerator == entropy

\* a generator that starts from the entropy of the operating system whatever
\* the seed
GeneratorIgnoringSeed(seed) == UnseededGenerator

\* lines 155-156: a generator seeded with the seed
SeededGenerator(seed) == RngSeed(seed)

\* the locals at the entry of the call, py_rng being the generator's state
RppEnter(polygon, py_rng) ==
    [op |-> "random_point_in_polygon", polygon |-> polygon, py_rng |-> py_rng,
     attempt |-> 0, candidate |-> <<>>, returned |-> FALSE, result |-> NoResult]

\* line 119: the loop goes on for 1000 turns
LoopGoesOn(attempt) == attempt < MaxAttempts

\* lines 120-126: one turn of the loop, a candidate drawn in the bounding box
RppDrawStep(l) ==
    LET minx == l.polygon.bounds[1]
        miny == l.polygon.bounds[2]
        maxx == l.polygon.bounds[3]
        maxy == l.polygon.bounds[4]
        x == Uniform(minx, maxx, l.py_rng)
        y == Uniform(miny, maxy, RngNext(l.py_rng))
        drawn == [l EXCEPT !.attempt = @ + 1, !.candidate = <<x, y>>,
                           !.py_rng = RngNext(RngNext(l.py_rng))]
    IN  IF Contains(l.polygon, x, y)
        THEN [drawn EXCEPT !.returned = TRUE, !.result = Ok(<<F(y), F(x)>>)]
        ELSE drawn

\* the fallback raising an error instead of returning the centroid
FallbackRaises(polygon) == Error("ValueError")

\* lines 128-130: the centroid as (lat, lng)
FallbackToCentroid(polygon) == Ok(<<Centroid(polygon)[2], Centroid(polygon)[1]>>)

RppFallbackStep(l) ==
    [l EXCEPT !.returned = TRUE, !.result = FallbackToCentroid(l.polygon)]

\* one step of the call: a turn of the loop or the fallback
RppStep(l) ==
    IF l.returned THEN l
    ELSE IF LoopGoesOn(l.attempt) THEN RppDrawStep(l)
    ELSE RppFallbackStep(l)

\* n steps of the call
RECURSIVE RppSteps(_, _)
RppSteps(l, n) ==
    IF n = 0 \/ l.returned THEN l
    ELSE IF n = 1 THEN RppStep(l)
    ELSE CHOOSE r \in
             { RppSteps(half, n - (n \div 2)) : half \in {RppSteps(l, n \div 2)} } : TRUE

\* the whole call, from its entry to its return
RandomPointInPolygon(polygon, py_rng) ==
    RppSteps(RppEnter(polygon, py_rng), MaxAttempts + 1)

-----------------------------------------------------------------------------
(* generate_population_weighted_locations, src/src/optimization.py:133-179 *)

\* weights / weights.sum(), a zero sum replaced by a uniform distribution
NormalizeOrUniform(weights) ==
    CHOOSE p \in { [i \in 1..Len(weights) |->
                       IF total = F(0) THEN Rat(1, Len(weights))
                       ELSE FDiv(weights[i], total)]
                   : total \in {NpSum(weights)} } : TRUE

\* line 162: weights / weights.sum()
Normalize(weights) ==
    CHOOSE p \in { [i \in 1..Len(weights) |-> FDiv(weights[i], total)]
                   : total \in {NpSum(weights)} } : TRUE

\* the cumulative distribution of p
RECURSIVE Cdf(_, _)
Cdf(p, i) == IF i = 0 THEN F(0) ELSE FAdd(p[i], Cdf(p, i - 1))

\* one draw that gives every zone the same chance, whatever p
ChoiceDrawUniform(p, s) == (s % Len(p)) + 1

\* one draw of rng.choice in generator state s: the first index whose
\* cumulative probability exceeds u = s / RngModulus
ChoiceDraw(p, s) ==
    SetMin({i \in 1..Len(p) : FLt(Rat(s, RngModulus), Cdf(p, i))})

\* the n draws of rng.choice, starting in generator state s
RECURSIVE ChoiceDraws(_, _, _)
ChoiceDraws(p, n, s) ==
    IF n = 0 THEN <<>> ELSE <<ChoiceDraw(p, s)>> \o ChoiceDraws(p, n - 1, RngNext(s))

\* no more zones drawn than the table has rows
ChoiceClamped(n_rows, size, p, s) ==
    IF \E i \in 1..Len(p) : ~IsFinite(p[i]) THEN Error("ValueError: probabilities contain NaN")
    ELSE IF \E i \in 1..Len(p) : FLt(p[i], F(0))
         THEN Error("ValueError: probabilities are not non-negative")
    ELSE IF NpSum(p) # F(1) THEN Error("ValueError: probabilities do not sum to 1")
    ELSE Ok(ChoiceDraws(p, IF size <= n_rows THEN size ELSE n_rows, s))

\* lines 165-170: rng.choice(index, size, replace=True, p): the checks numpy
\* makes on p, then the draws
Choice(n_rows, size, p, s) ==
    IF \E i \in 1..Len(p) : ~IsFinite(p[i]) THEN Error("ValueError: probabilities contain NaN")
    ELSE IF \E i \in 1..Len(p) : FLt(p[i], F(0))
         THEN Error("ValueError: probabilities are not non-negative")
    ELSE IF NpSum(p) # F(1) THEN Error("ValueError: probabilities do not sum to 1")
    ELSE Ok(ChoiceDraws(p, size, s))

\* lines 154-159: the generators and the weights
GenEnter(tbl, n_hubs, weight_column, seed) ==
    [op |-> "generate_population_weighted_locations",
     arg_gdf |-> tbl, n_hubs |-> n_hubs, weight_column |-> weight_column, seed |-> seed,
     rng |-> SeededGenerator(seed), py_rng |-> SeededGenerator(seed),
     weights |-> [i \in 1..Len(tbl.rows) |-> FillNa(tbl.rows[i][weight_column], F(0))],
     sampled_indices |-> <<>>, i |-> 1, locations |-> <<>>]

\* lines 174-177: one turn of the loop over the sampled zones
GenLoopBody(b) ==
    CHOOSE next \in
        { [b EXCEPT !.locations = Append(@, call.result.value),
                    !.py_rng = call.py_rng,
                    !.i = @ + 1]
          : call \in { RandomPointInPolygon(
                          b.arg_gdf.rows[b.sampled_indices[b.i]][COL_GEOMETRY],
                          b.py_rng) } } : TRUE

-----------------------------------------------------------------------------
(* Inputs: the zone tables and hub sets the calls are tried on *)

\* zone layouts over the strip: zones of different areas, and one table
\* holding a degenerate zone
Layouts ==
    { <<Polygon({0}), Polygon({1, 2}), Polygon(3 .. (GridW - 1))>>,
      <<Polygon({0, 1}), Polygon(2 .. (GridW - 1))>>,
      <<Polygon({0, 1, 2}), Sliver(2 * GridW - 2)>> }

WeightVectors(n) == [1..n -> {F(w) : w \in 0..MaxWeight}]

\* a vehicle count column left with holes by the left merge of the
\* preprocessing: the odd rows without vehicles are missing (NaN)
WithHoles(w) == [i \in 1..Len(w) |-> IF w[i] = F(0) /\ i % 2 = 1 THEN NaN ELSE w[i]]

\* a fixed column, for the weight that is not varied
FixedColumn(n) == [i \in 1..n |-> F((i + 1) % (MaxWeight + 1))]

CrsOf(geoms) == IF Len(geoms) = 2 /\ geoms[2].cells # {} THEN None ELSE TARGET_CRS

TablesOf(g) ==
    UNION { { Table(CrsOf(g), g, w, WithHoles(FixedColumn(Len(g))), w),
              Table(CrsOf(g), g, FixedColumn(Len(g)), WithHoles(w), FixedColumn(Len(g))) }
            : w \in WeightVectors(Len(g)) }

EvalTables == UNION { TablesOf(g) : g \in Layouts }

\* hub sites <<lat, lng>>: a cell centre, a cell edge, a point of the lower
\* border, the centre of the last cell
HubSites ==
    { <<F(1), F(1)>>, <<F(1), F(4)>>, <<F(0), F(5)>>, <<F(1), F(2 * GridW - 1)>> }

HubSets == UNION { [1..n -> HubSites] : n \in 1..MaxHubs }

\* the caller keeps the result of its first call and of its latest one
RecordCall(h, call) == IF h = <<>> THEN <<call>> ELSE <<h[1], call>>

-----------------------------------------------------------------------------
(* The session of evaluate_coverage calls *)

InitEval ==
    /\ gdf \in EvalTables
    /\ pc = "idle"
    /\ ab = NoLocals /\ ev = NoLocals /\ km = NoLocals /\ bl = NoLocals
    /\ ret = NoResult
    /\ history = <<>>
    /\ entropy = 0

\* the caller calls evaluate_coverage(hub_locations, gdf)
EvalCall ==
    /\ pc = "idle" /\ history = <<>>
    /\ \E hub_locations \in HubSets :
          ev' = EvalEnter(gdf, hub_locations, COVERAGE_RADIUS_M)
    /\ pc' = "ev_loop"
    /\ UNCHANGED <<gdf, ab, km, bl, ret, history, entropy>>

\* one buffer of the loop of lines 227-235
EvalHub ==
    /\ pc = "ev_loop" /\ ev.i <= Len(ev.buffers)
    /\ ev' = EvalLoopBody(ev)
    /\ UNCHANGED <<gdf, ab, pc, km, bl, ret, history, entropy>>

\* lines 237-262: the metrics and the return
EvalReturn ==
    /\ pc = "ev_loop" /\ ev.i > Len(ev.buffers)
    /\ ret' = CoverageReport(ev.gdf_barrios, ev.max_coverage)
    /\ history' = RecordCall(history,
                         [op |-> "evaluate_coverage", gdf |-> ev.arg_gdf,
                          hub_locations |-> ev.hub_locations,
                          max_coverage |-> ev.max_coverage, ret |-> ret'])
    /\ pc' = "done"
    /\ UNCHANGED <<gdf, ab, ev, km, bl, entropy>>

\* the caller derives a table without one of the two weight columns
CallerDropsColumn ==
    /\ pc = "done" /\ Len(history) = 1
    /\ \E col \in {COL_DEMAND_SCORE, COL_TOTAL_VEHICLES} : gdf' = DropColumn(gdf, col)
    /\ pc' = "idle"
    /\ UNCHANGED <<ab, ev, km, bl, ret, history, entropy>>

\* the caller evaluates the same hubs again, on the table as it is now
EvalCallAgain ==
    /\ pc = "idle" /\ Len(history) = 1
    /\ ev' = EvalEnter(gdf, history[1].hub_locations, COVERAGE_RADIUS_M)
    /\ pc' = "ev_loop"
    /\ UNCHANGED <<gdf, ab, km, bl, ret, history, entropy>>

NextEval == EvalCall \/ EvalHub \/ EvalReturn \/ CallerDropsColumn \/ EvalCallAgain

SpecEval == InitEval /\ [][NextEval]_vars

-----------------------------------------------------------------------------
(* Properties of evaluate_coverage *)

Zones(e) == 1 .. Len(e.barrios_m.rows)
ValidZones(e) == {z \in Zones(e) : e.barrios_m.rows[z].geometry.cells # {}}
Hubs(e) == 1 .. Len(e.buffers)

\* the share of zone z's area that lies in the disk of hub h, clipped to [0, 1]
HubFraction(e, z, h) ==
    LET g == e.barrios_m.rows[z].geometry
        x == Rat(Cardinality(Intersection(g, e.buffers[h]).cells), Cardinality(g.cells))
    IN  IF FLt(x, F(0)) THEN F(0) ELSE IF FLt(F(1), x) THEN F(1) ELSE x

EvalDone == pc = "done" /\ ev.op = "evaluate_coverage"

\* C1: once the loop over the hubs has ended, the coverage fraction of every
\* zone (of positive area) is the largest of the single-hub fractions
\* area(zone /\ disk) / area(zone), clipped to [0, 1]: it is the fraction of
\* one of the hubs and no hub's fraction exceeds it, so it is never their sum.
C1_CoverageIsMaximum ==
    EvalDone =>
        \A z \in ValidZones(ev) :
            /\ \E h \in Hubs(ev) : ev.max_coverage[z] = HubFraction(ev, z, h)
            /\ \A h \in Hubs(ev) : FLe(HubFraction(ev, z, h), ev.max_coverage[z])

\* a zone overlapped by two hubs, with fractions a and b whose sum is larger
\* than either, ends with max(a, b)
C1_Witness ==
    /\ EvalDone
    /\ \E z \in ValidZones(ev) : \E h1, h2 \in Hubs(ev) :
          LET a == HubFraction(ev, z, h1)
              b == HubFraction(ev, z, h2)
          IN  /\ h1 # h2 /\ FLt(F(0), a) /\ FLt(F(0), b) /\ FLt(a, b)
              /\ ev.max_coverage[z] = b
              /\ ev.max_coverage[z] # FAdd(a, b)

\* C2: at every step of the loop over the hubs every zone's coverage
\* fraction is in [0, 1], and the returned count of covered neighbourhoods
\* is between 0 and the number of zones.
C2_CoverageInUnitInterval ==
    /\ ev.op = "evaluate_coverage" =>
          \A z \in Zones(ev) :
              FLe(F(0), ev.max_coverage[z]) /\ FLe(ev.max_coverage[z], F(1))
    /\ EvalDone => ret.covered_neighborhoods \in 0 .. Len(ev.arg_gdf.rows)

\* after the second of two buffers every zone is fully covered
C2_Witness ==
    /\ EvalDone /\ Len(ev.buffers) = 2 /\ ev.i = 3
    /\ \A z \in Zones(ev) : ev.max_coverage[z] = F(1)
    /\ ret.covered_neighborhoods = Len(ev.arg_gdf.rows)

\* C3: the demand-weighted and the population-weighted coverage returned by
\* evaluate_coverage are percentages, in [0, 100] (zone tables of the data
\* model: weights are non-negative or missing).
C3_WeightedCoverageIsPercentage ==
    EvalDone =>
        /\ FLe(F(0), ret.demand_covered) /\ FLe(ret.demand_covered, F(100))
        /\ FLe(F(0), ret.population_covered) /\ FLe(ret.population_covered, F(100))

\* a report with one weighted metric strictly inside (0, 100) and the other at 100
C3_Witness ==
    /\ EvalDone
    /\ FLt(F(0), ret.demand_covered) /\ FLt(ret.demand_covered, F(100))
    /\ ret.population_covered = F(100)

\* the sum of f over a set of zones
RECURSIVE SumOver(_, _)
SumOver(f, S) ==
    IF S = {} THEN F(0)
    ELSE LET z == CHOOSE z \in S : TRUE IN FAdd(f[z], SumOver(f, S \ {z}))

\* the zones whose weight is present, the total weight and the covered weight
Present(e, col) == {z \in Zones(e) : ~IsNaN(e.arg_gdf.rows[z][col])}
TotalWeight(e, col) == SumOver([z \in Zones(e) |-> e.arg_gdf.rows[z][col]], Present(e, col))
CoveredWeight(e, col) ==
    SumOver([z \in Zones(e) |-> FMul(e.arg_gdf.rows[z][col], e.max_coverage[z])],
            Present(e, col))

\* metric * total = 100 * covered when total > 0, metric = 0 when total = 0
IsWeightedShare(metric, e, col) ==
    /\ IsFinite(metric)
    /\ FLt(F(0), TotalWeight(e, col)) =>
          FMul(metric, TotalWeight(e, col)) = FMul(F(100), CoveredWeight(e, col))
    /\ TotalWeight(e, col) = F(0) => metric = F(0)

\* C4: demand_covered is 100 * sum(demand weight * coverage) / sum(demand
\* weight) when the total demand weight is positive and exactly 0 when it is
\* 0 (a finite number, no division by zero); population_covered is the same
\* on the vehicle weight.
C4_WeightedCoverageFormula ==
    EvalDone =>
        /\ COL_DEMAND_SCORE \in ev.arg_gdf.columns =>
              IsWeightedShare(ret.demand_covered, ev, COL_DEMAND_SCORE)
        /\ COL_TOTAL_VEHICLES \in ev.arg_gdf.columns =>
              IsWeightedShare(ret.population_covered, ev, COL_TOTAL_VEHICLES)

\* a table of total demand weight 0, some of it covered, beside a positive
\* population metric
C4_Witness ==
    /\ EvalDone
    /\ COL_DEMAND_SCORE \in ev.arg_gdf.columns
    /\ COL_TOTAL_VEHICLES \in ev.arg_gdf.columns
    /\ TotalWeight(ev, COL_DEMAND_SCORE) = F(0)
    /\ \E z \in Zones(ev) : FLt(F(0), ev.max_coverage[z])
    /\ ret.demand_covered = F(0)
    /\ FLt(F(0), ret.population_covered) /\ FLt(ret.population_covered, F(100))

\* two reports agree but for one metric, which is 0 in the second
SameButZero(first, second, metric) ==
    /\ second[metric] = F(0)
    /\ \A m \in (DOMAIN first) \ {metric} : second[m] = first[m]

\* C5: the evaluation of a table that lacks the demand column (or the
\* population column) returns a report; the metric of the missing column is
\* 0 in it and the other three metrics are those of the evaluation of the
\* same hubs on the table holding the column.
C5_MissingColumnDegradesOneMetric ==
    (pc = "done" /\ Len(history) = 2) =>
        LET first == history[1]
            second == history[2]
        IN  /\ DOMAIN second.ret = DOMAIN first.ret
            /\ COL_DEMAND_SCORE \notin second.gdf.columns =>
                  SameButZero(first.ret, second.ret, "demand_covered")
            /\ COL_TOTAL_VEHICLES \notin second.gdf.columns =>
                  SameButZero(first.ret, second.ret, "population_covered")

\* the demand column is dropped from a table whose demand was partly covered
C5_Witness ==
    /\ pc = "done" /\ Len(history) = 2
    /\ COL_DEMAND_SCORE \notin history[2].gdf.columns
    /\ FLt(F(0), history[1].ret.demand_covered)
    /\ history[2].ret.demand_covered = F(0)
    /\ FLt(F(0), history[2].ret.population_covered)
    /\ history[2].ret.covered_neighborhoods > 0

-----------------------------------------------------------------------------
(* The session of weighted_kmeans_optimization calls *)

\* line 81: gdf[[lat_column, lng_column]].values
Coordinates(tbl) == [i \in 1..Len(tbl.rows) |-> <<tbl.rows[i].lat, tbl.rows[i].lng>>]

\* two coincident points
Coincident == << <<F(1), F(3)>>, <<F(1), F(3)>> >>

\* weights as a caller may hand them over: negative ones included
SignedWeightVectors(n) == [1..n -> {F(w) : w \in -1 .. MaxWeight}]

InitKMeans ==
    /\ gdf \in { Table(TARGET_CRS, g, FixedColumn(Len(g)), FixedColumn(Len(g)),
                       FixedColumn(Len(g))) : g \in Layouts }
    /\ pc = "idle"
    /\ ab = NoLocals /\ ev = NoLocals /\ km = NoLocals /\ bl = NoLocals
    /\ ret = NoResult
    /\ history = <<>>
    /\ entropy = 0

\* the locals at the entry of the call
KMeansEnter(coordinates, weights, n_clusters, random_state, n_init) ==
    [op |-> "weighted_kmeans_optimization",
     coordinates |-> coordinates,
     arg_weights |-> weights, arg_n_clusters |-> n_clusters,
     weights |-> weights, n_clusters |-> n_clusters,
     random_state |-> random_state, n_init |-> n_init]

\* the caller calls weighted_kmeans_optimization(coordinates, weights, n_clusters)
KMeansCall ==
    /\ pc = "idle" /\ history = <<>>
    /\ \E coordinates \in {Coordinates(gdf), Coincident} :
       \E weights \in SignedWeightVectors(Len(coordinates)) :
       \E n_clusters \in 0 .. (Len(coordinates) + 1) :
          km' = KMeansEnter(coordinates, weights, n_clusters,
                            KMEANS_RANDOM_STATE, KMEANS_N_INIT)
    /\ pc' = "km_clamp"
    /\ UNCHANGED <<gdf, ab, ev, bl, ret, history, entropy>>

\* line 40
KMeansClamp ==
    /\ pc = "km_clamp"
    /\ km' = [km EXCEPT !.n_clusters = ClampClusters(@, km.coordinates)]
    /\ pc' = "km_nonneg"
    /\ UNCHANGED <<gdf, ab, ev, bl, ret, history, entropy>>

\* lines 43-44
KMeansNonNegative ==
    /\ pc = "km_nonneg"
    /\ km' = [km EXCEPT !.weights = NonNegative(@)]
    /\ pc' = "km_zero"
    /\ UNCHANGED <<gdf, ab, ev, bl, ret, history, entropy>>

\* lines 46-47
KMeansUniformIfZero ==
    /\ pc = "km_zero"
    /\ km' = [km EXCEPT !.weights = UniformIfZero(@)]
    /\ pc' = "km_fit"
    /\ UNCHANGED <<gdf, ab, ev, bl, ret, history, entropy>>

\* lines 50-57: the fit and the return; an exception of the library leaves the call
KMeansReturn ==
    /\ pc = "km_fit"
    /\ ret' = KMeansFit(km.coordinates, km.weights, km.n_clusters,
                        km.random_state, km.n_init)
    /\ history' = RecordCall(history,
                         [op |-> "weighted_kmeans_optimization",
                          coordinates |-> km.coordinates, weights |-> km.arg_weights,
                          n_clusters |-> km.arg_n_clusters, ret |-> ret'])
    /\ pc' = "done"
    /\ UNCHANGED <<gdf, ab, ev, km, bl, entropy>>

\* the caller repeats the call with uniform weights
KMeansCallUniform ==
    /\ pc = "done" /\ Len(history) = 1
    /\ km' = KMeansEnter(history[1].coordinates,
                         [i \in 1..Len(history[1].coordinates) |-> F(1)],
                         history[1].n_clusters, KMEANS_RANDOM_STATE, KMEANS_N_INIT)
    /\ pc' = "km_clamp"
    /\ UNCHANGED <<gdf, ab, ev, bl, ret, history, entropy>>

NextKMeans ==
    \/ KMeansCall \/ KMeansClamp \/ KMeansNonNegative \/ KMeansUniformIfZero
    \/ KMeansReturn \/ KMeansCallUniform

SpecKMeans == InitKMeans /\ [][NextKMeans]_vars

-----------------------------------------------------------------------------
(* Properties of weighted_kmeans_optimization *)

KMeansDone == pc = "done" /\ km.op = "weighted_kmeans_optimization"

\* C6: a call with more clusters requested than there are points (k > N,
\* N >= 1) raises no error and returns exactly N centres.
C6_ClampedToNumberOfPoints ==
    (KMeansDone /\ Len(km.coordinates) >= 1 /\ km.arg_n_clusters > Len(km.coordinates)) =>
        /\ ~IsError(ret)
        /\ Len(ret.value) = Len(km.coordinates)

\* three points, four clusters requested, three centres returned
C6_Witness ==
    /\ KMeansDone
    /\ Len(km.coordinates) = 3 /\ km.arg_n_clusters = 4
    /\ ~IsError(ret) /\ Len(ret.value) = 3

AllNonPositive(weights) == \A i \in 1..Len(weights) : FLe(weights[i], F(0))

\* C7: the weights the clustering is run with are the caller's weights with
\* every negative one replaced by 0 or, when none of the caller's weights is
\* positive, 1 for every point; a call whose weights are all zero or negative
\* raises no error and returns the centres of the call with uniform weights.
C7_WeightSanitization ==
    /\ (pc = "km_fit" \/ KMeansDone) =>
          \A i \in 1..Len(km.arg_weights) :
              km.weights[i] =
                  IF AllNonPositive(km.arg_weights) THEN F(1)
                  ELSE IF FLt(km.arg_weights[i], F(0)) THEN F(0)
                  ELSE km.arg_weights[i]
    /\ (KMeansDone /\ Len(history) = 2 /\ AllNonPositive(history[1].weights)) =>
          /\ history[1].n_clusters >= 1 => ~IsError(history[1].ret)
          /\ history[1].ret = history[2].ret

\* weights 0, -1, 0 gave the centres of the uniform call: more than one
\* centre, not all alike
C7_Witness ==
    /\ KMeansDone /\ Len(history) = 2
    /\ history[1].weights = <<F(0), F(-1), F(0)>>
    /\ history[1].n_clusters = 2
    /\ ~IsError(history[1].ret)
    /\ history[1].ret = history[2].ret
    /\ history[1].ret.value[1] # history[1].ret.value[2]

-----------------------------------------------------------------------------
(* The session of generate_population_weighted_locations calls *)

\* the weight columns the generator is tried on: all zero, mixed, all on the
\* last zone
BaselineWeights(n) ==
    { [i \in 1..n |-> F(0)], FixedColumn(n),
      [i \in 1..n |-> IF i = n THEN F(MaxWeight) ELSE F(0)] }

BaselineTables ==
    UNION { { Table(TARGET_CRS, g, FixedColumn(Len(g)), WithHoles(w), FixedColumn(Len(g)))
              : w \in BaselineWeights(Len(g)) } : g \in Layouts }

Seeds == {BASELINE_SEED, BASELINE_SEED + 1}

InitBaseline ==
    /\ gdf \in BaselineTables
    /\ pc = "idle"
    /\ ab = NoLocals /\ ev = NoLocals /\ km = NoLocals /\ bl = NoLocals
    /\ ret = NoResult
    /\ history = <<>>
    /\ entropy = 0

\* the caller calls generate_population_weighted_locations(gdf, n_hubs, seed=seed)
GenCall ==
    /\ pc \in {"idle", "done"}
    /\ \E n_hubs \in {0, 1, MaxHubs} : \E seed \in Seeds :
          bl' = GenEnter(gdf, n_hubs, COL_TOTAL_VEHICLES, seed)
    /\ pc' = "gen_normalize"
    /\ km' = NoLocals /\ ret' = NoResult
    /\ UNCHANGED <<gdf, ab, ev, history, entropy>>

\* line 162
GenNormalize ==
    /\ pc = "gen_normalize"
    /\ bl' = [bl EXCEPT !.weights = Normalize(@)]
    /\ pc' = "gen_choice"
    /\ UNCHANGED <<gdf, ab, ev, km, ret, history, entropy>>

GenRecord(b, r) ==
    [op |-> b.op, n_hubs |-> b.n_hubs, seed |-> b.seed,
     weight_column |-> b.weight_column, ret |-> r]

\* lines 165-170: the zones are drawn, or numpy refuses the probabilities
\* and the exception leaves the call
GenChoice ==
    /\ pc = "gen_choice"
    /\ LET drawn == Choice(Len(bl.arg_gdf.rows), bl.n_hubs, bl.weights, bl.rng)
       IN  IF IsError(drawn)
           THEN /\ ret' = drawn
                /\ history' = RecordCall(history, GenRecord(bl, drawn))
                /\ pc' = "done"
                /\ bl' = bl
           ELSE /\ bl' = [bl EXCEPT !.sampled_indices = drawn.value]
                /\ pc' = "gen_loop"
                /\ UNCHANGED <<ret, history>>
    /\ UNCHANGED <<gdf, ab, ev, km, entropy>>

\* lines 174-177: a point in the next sampled zone
GenPoint ==
    /\ pc = "gen_loop" /\ bl.i <= Len(bl.sampled_indices)
    /\ bl' = GenLoopBody(bl)
    /\ UNCHANGED <<gdf, ab, pc, ev, km, ret, history, entropy>>

\* line 179
GenReturn ==
    /\ pc = "gen_loop" /\ bl.i > Len(bl.sampled_indices)
    /\ ret' = Ok(bl.locations)
    /\ history' = RecordCall(history, GenRecord(bl, ret'))
    /\ pc' = "done"
    /\ UNCHANGED <<gdf, ab, ev, km, bl, entropy>>

\* between two calls some other code calls random_point_in_polygon(polygon)
\* without generators (lines 111-114): a fresh generator seeded by the
\* operating system, whose entropy source moves on
RppDirect ==
    /\ pc = "done"
    /\ \E z \in 1..Len(gdf.rows) :
          ret' = RandomPointInPolygon(gdf.rows[z][COL_GEOMETRY],
                                      UnseededGenerator).result
    /\ entropy' = (entropy + 1) % EntropyStates
    /\ pc' = "idle"
    /\ bl' = NoLocals /\ km' = NoLocals
    /\ UNCHANGED <<gdf, ab, ev, history>>

\* the caller hands the same weights to the optimizer (lines 81-91)
KMeansCallSameWeights ==
    /\ pc = "done" /\ bl # NoLocals
    /\ km' = KMeansEnter(Coordinates(gdf),
                         [i \in 1..Len(gdf.rows) |->
                             FillNa(gdf.rows[i][bl.weight_column], F(0))],
                         bl.n_hubs, KMEANS_RANDOM_STATE, KMEANS_N_INIT)
    /\ pc' = "km_clamp"
    /\ bl' = NoLocals /\ ret' = NoResult
    /\ UNCHANGED <<gdf, ab, ev, history, entropy>>

NextBaseline ==
    \/ GenCall \/ GenNormalize \/ GenChoice \/ GenPoint \/ GenReturn
    \/ RppDirect
    \/ KMeansCallSameWeights \/ KMeansClamp \/ KMeansNonNegative
    \/ KMeansUniformIfZero \/ KMeansReturn

SpecBaseline == InitBaseline /\ [][NextBaseline]_vars

-----------------------------------------------------------------------------
(* Properties of generate_population_weighted_locations *)

LastCall == history[Len(history)]

\* the weights of the chosen column, missing ones as 0, sum to 0
ZeroWeightSum(tbl, col) ==
    SumOver([z \in 1..Len(tbl.rows) |-> FillNa(tbl.rows[z][col], F(0))], 1..Len(tbl.rows)) = F(0)

\* C8: a call of the generator on a table whose weight column sums to 0
\* ends with an error and has produced no location, whereas the optimizer
\* given the same weights (and at least one cluster to find) returns centres
\* computed with uniform weights.
C8_ZeroWeightSumFails ==
    (pc = "done" /\ history # <<>> /\ ZeroWeightSum(gdf, COL_TOTAL_VEHICLES)) =>
        /\ LastCall.op = "generate_population_weighted_locations" =>
              /\ IsError(ret) /\ LastCall.ret = ret
              /\ bl.locations = <<>> /\ bl.sampled_indices = <<>>
        /\ (LastCall.op = "weighted_kmeans_optimization" /\ LastCall.n_clusters >= 1) =>
              /\ ~IsError(LastCall.ret)
              /\ \A i \in 1..Len(km.weights) : km.weights[i] = F(1)

\* on a table of weight sum 0 the generator asked for two hubs failed and
\* the optimizer asked for two clusters returned two centres
C8_Witness ==
    /\ pc = "done" /\ Len(history) = 2
    /\ ZeroWeightSum(gdf, COL_TOTAL_VEHICLES)
    /\ history[1].op = "generate_population_weighted_locations"
    /\ history[1].n_hubs = 2 /\ IsError(history[1].ret)
    /\ history[2].op = "weighted_kmeans_optimization"
    /\ ~IsError(history[2].ret) /\ Len(history[2].ret.value) = 2

SameGenArguments(a, b) ==
    /\ a.op = "generate_population_weighted_locations" /\ b.op = a.op
    /\ a.n_hubs = b.n_hubs /\ a.seed = b.seed /\ a.weight_column = b.weight_column

\* C9: the first call of the generator and any later call with the same
\* number of hubs, weight column and seed, on the same table, end alike:
\* the same coordinate sequence (or the same error), whatever was called in
\* between.
C9_SameSeedSameLocations ==
    (Len(history) = 2 /\ SameGenArguments(history[1], history[2])) =>
        history[1].ret = history[2].ret

\* two calls with the same arguments returned the same two locations, a
\* call without generators having moved the entropy source in between
C9_Witness ==
    /\ pc = "done" /\ Len(history) = 2
    /\ SameGenArguments(history[1], history[2])
    /\ history[1].n_hubs = 2
    /\ ~IsError(history[1].ret)
    /\ history[1].ret = history[2].ret
    /\ history[1].ret.value[1] # history[1].ret.value[2]
    /\ entropy # 0

-----------------------------------------------------------------------------
(* The session of random_point_in_polygon calls, one loop turn per step *)

InitSampler ==
    /\ gdf \in { Table(TARGET_CRS, g, FixedColumn(Len(g)), FixedColumn(Len(g)),
                       FixedColumn(Len(g))) : g \in Layouts }
    /\ pc = "idle"
    /\ ab = NoLocals /\ ev = NoLocals /\ km = NoLocals /\ bl = NoLocals
    /\ ret = NoResult
    /\ history = <<>>
    /\ entropy = 0

\* random_point_in_polygon(polygon): no generators given, lines 111-114
RppCallDefault ==
    /\ pc \in {"idle", "done"}
    /\ \E z \in 1..Len(gdf.rows) :
          bl' = RppEnter(gdf.rows[z][COL_GEOMETRY], UnseededGenerator)
    /\ entropy' = (entropy + 1) % EntropyStates
    /\ pc' = "rpp_loop"
    /\ ret' = NoResult
    /\ UNCHANGED <<gdf, ab, ev, km, history>>

\* random_point_in_polygon(polygon, rng, py_rng): the caller's generators,
\* freshly seeded or as the call before left them
RppCallWithGenerators ==
    /\ pc \in {"idle", "done"}
    /\ \E z \in 1..Len(gdf.rows) :
       \E py_rng \in {SeededGenerator(seed) : seed \in Seeds}
                        \cup (IF bl = NoLocals THEN {} ELSE {bl.py_rng}) :
          bl' = RppEnter(gdf.rows[z][COL_GEOMETRY], py_rng)
    /\ pc' = "rpp_loop"
    /\ ret' = NoResult
    /\ UNCHANGED <<gdf, ab, ev, km, history, entropy>>

\* lines 119-126: a turn of the loop; an accepted candidate is returned
RppDraw ==
    /\ pc = "rpp_loop" /\ LoopGoesOn(bl.attempt)
    /\ bl' = RppDrawStep(bl)
    /\ IF bl'.returned
       THEN pc' = "done" /\ ret' = bl'.result
       ELSE UNCHANGED <<pc, ret>>
    /\ UNCHANGED <<gdf, ab, ev, km, history, entropy>>

\* lines 128-130: the loop is over without a return
RppFallback ==
    /\ pc = "rpp_loop" /\ ~LoopGoesOn(bl.attempt)
    /\ bl' = RppFallbackStep(bl)
    /\ pc' = "done" /\ ret' = bl'.result
    /\ UNCHANGED <<gdf, ab, ev, km, history, entropy>>

NextSampler == RppCallDefault \/ RppCallWithGenerators \/ RppDraw \/ RppFallback

SpecSampler == InitSampler /\ [][NextSampler]_vars

\* a call that has been entered goes on running
SpecSamplerFair == SpecSampler /\ WF_vars(RppDraw \/ RppFallback)

-----------------------------------------------------------------------------
(* Properties of random_point_in_polygon *)

InBoundingBox(g, p) ==
    /\ g.bounds[1] <= p[1] /\ p[1] <= g.bounds[3]
    /\ g.bounds[2] <= p[2] /\ p[2] <= g.bounds[4]

SamplerBounded ==
    pc \in {"rpp_loop", "done"} =>
        /\ bl.attempt <= MaxAttempts
        /\ bl.attempt > 0 => InBoundingBox(bl.polygon, bl.candidate)
        /\ pc = "rpp_loop" =>
              (bl.attempt > 0 => ~Contains(bl.polygon, bl.candidate[1], bl.candidate[2]))
        /\ pc = "done" =>
              /\ ~IsError(ret)
              /\ \/ /\ Contains(bl.polygon, bl.candidate[1], bl.candidate[2])
                    /\ ret = Ok(<<F(bl.candidate[2]), F(bl.candidate[1])>>)
                 \/ /\ bl.attempt = MaxAttempts
                    /\ ~Contains(bl.polygon, bl.candidate[1], bl.candidate[2])
                    /\ ret = Ok(<<Centroid(bl.polygon)[2], Centroid(bl.polygon)[1]>>)

\* C10: a call of random_point_in_polygon that has been entered returns.
\* All along it has drawn at most 1000 candidates, each in the bounding box
\* of the polygon; while it loops the candidate drawn last was rejected;
\* what it returns is the accepted candidate as (lat, lng), or, after 1000
\* rejected candidates, the centroid of the polygon as (lat, lng), and
\* never an error.
C10_SamplerTerminates ==
    /\ []SamplerBounded
    /\ (pc = "rpp_loop") ~> (pc = "done")

\* a call on a polygon without interior has drawn 1000 candidates and
\* returned the centroid
C10_Witness ==
    /\ pc = "done"
    /\ Area(bl.polygon) = F(0)
    /\ bl.attempt = MaxAttempts
    /\ ret = Ok(<<Centroid(bl.polygon)[2], Centroid(bl.polygon)[1]>>)

-----------------------------------------------------------------------------
(* The boundary of a polygon in random_point_in_polygon *)

\* the point lies on the boundary of the polygon
OnBoundary(g, x, y) ==
    /\ 0 <= y /\ y <= 2 * g.scale
    /\ \E c \in g.cells : 2 * c * g.scale <= x /\ x <= (2 * c + 2) * g.scale
    /\ \/ y = 0
       \/ y = 2 * g.scale
       \/ \E c \in g.cells : x = 2 * c * g.scale /\ (c - 1) \notin g.cells
       \/ \E c \in g.cells : x = (2 * c + 2) * g.scale /\ (c + 1) \notin g.cells

SamplerDrew == pc \in {"rpp_loop", "done"} /\ bl.attempt > 0

\* C11 as stated: a candidate lying exactly on the boundary of a polygon (of
\* positive area) is accepted and returned as (lat, lng).
C11_BoundaryAccepted ==
    (SamplerDrew /\ FLt(F(0), Area(bl.polygon))
       /\ OnBoundary(bl.polygon, bl.candidate[1], bl.candidate[2])) =>
        /\ pc = "done"
        /\ ret = Ok(<<F(bl.candidate[2]), F(bl.candidate[1])>>)

\* C11 amended: a candidate is accepted and returned exactly when it lies in
\* the interior of the polygon; a candidate on the boundary is rejected: the
\* loop goes on, and the call returns it only if it is the last of the 1000
\* and happens to be the centroid.
C11_InteriorAccepted ==
    SamplerDrew =>
        /\ Contains(bl.polygon, bl.candidate[1], bl.candidate[2]) =>
              /\ pc = "done"
              /\ ret = Ok(<<F(bl.candidate[2]), F(bl.candidate[1])>>)
        /\ OnBoundary(bl.polygon, bl.candidate[1], bl.candidate[2]) =>
              \/ pc = "rpp_loop"
              \/ /\ bl.attempt = MaxAttempts
                 /\ ret = Ok(<<Centroid(bl.polygon)[2], Centroid(bl.polygon)[1]>>)

\* a candidate on the boundary of a polygon of positive area was drawn and
\* the loop goes on
C11_Witness ==
    /\ pc = "rpp_loop" /\ bl.attempt > 0 /\ bl.attempt < MaxAttempts
    /\ FLt(F(0), Area(bl.polygon))
    /\ OnBoundary(bl.polygon, bl.candidate[1], bl.candidate[2])

-----------------------------------------------------------------------------
(* The calls run_ab_simulation makes, each as one function of its arguments *)

\* weighted_kmeans_optimization(coordinates, weights, n_clusters), lines 19-57
WeightedKMeansOptimization(coordinates, weights, n_clusters, random_state, n_init) ==
    KMeansFit(coordinates, UniformIfZero(NonNegative(weights)),
              ClampClusters(n_clusters, coordinates), random_state, n_init)

\* the zones clustered with the weight of the demand_covered metric
GenerateSmartLocationsByDemandScore(tbl, n_hubs) ==
    WeightedKMeansOptimization(
        Coordinates(tbl),
        [i \in 1..Len(tbl.rows) |-> FillNa(tbl.rows[i][COL_DEMAND_SCORE], F(0))],
        n_hubs, KMEANS_RANDOM_STATE, KMEANS_N_INIT)

\* generate_smart_locations(gdf, n_hubs), lines 60-93
GenerateSmartLocations(tbl, n_hubs) ==
    WeightedKMeansOptimization(
        Coordinates(tbl),
        [i \in 1..Len(tbl.rows) |-> FillNa(tbl.rows[i][COL_UNMET_DEMAND], F(0))],
        n_hubs, KMEANS_RANDOM_STATE, KMEANS_N_INIT)

\* lines 174-177: the loop over the sampled zones
RECURSIVE GenLoop(_)
GenLoop(b) ==
    IF b.i > Len(b.sampled_indices) THEN b
    ELSE CHOOSE r \in { GenLoop(next) : next \in {GenLoopBody(b)} } : TRUE

\* generate_population_weighted_locations(gdf, n_hubs, seed=seed), lines 133-179
GeneratePopulationWeightedLocations(tbl, n_hubs, weight_column, seed) ==
    CHOOSE r \in
        { IF IsError(drawn) THEN drawn
          ELSE Ok(GenLoop([GenEnter(tbl, n_hubs, weight_column, seed)
                              EXCEPT !.sampled_indices = drawn.value]).locations)
          : drawn \in { Choice(Len(tbl.rows), n_hubs,
                               Normalize(GenEnter(tbl, n_hubs, weight_column, seed).weights),
                               GenEnter(tbl, n_hubs, weight_column, seed).rng) } } : TRUE

\* lines 227-235: the loop over the buffers
RECURSIVE EvalLoop(_)
EvalLoop(e) ==
    IF e.i > Len(e.buffers) THEN e
    ELSE CHOOSE r \in { EvalLoop(next) : next \in {EvalLoopBody(e)} } : TRUE

\* evaluate_coverage(hub_locations, gdf), lines 182-262; hub_locations[:, 1]
\* of an array without rows of two columns raises
EvaluateCoverage(hub_locations, tbl, radius_m) ==
    IF Len(hub_locations) = 0 THEN Error("IndexError")
    ELSE CHOOSE r \in
             { Ok(CoverageReport(e.gdf_barrios, e.max_coverage))
               : e \in { EvalLoop(EvalEnter(tbl, hub_locations, radius_m)) } } : TRUE

-----------------------------------------------------------------------------
(* run_ab_simulation, src/src/optimization.py:265-321 *)

MaxIterations == 2

\* every baseline draw made with the seed of the run
SameSeed(seed, i) == seed

\* line 299: seed=seed + i
IterationSeed(seed, i) == seed + i

\* the value of the latest report instead of the mean of all
LatestOnly(values) == values[Len(values)]

\* line 306: np.mean of the values of one metric
MeanOf(values) == FDiv(NpSum(values), F(Len(values)))

MetricKeys == {"covered_neighborhoods", "avg_coverage", "demand_covered", "population_covered"}

\* a metric of a report as a float (covered_neighborhoods is an int)
Metric(report, key) ==
    IF key = "covered_neighborhoods" THEN F(report[key]) ELSE report[key]

\* lines 305-308: the average report of the baseline
AverageReport(baseline_metrics_list) ==
    [key \in MetricKeys |->
        MeanOf([j \in 1..Len(baseline_metrics_list) |-> Metric(baseline_metrics_list[j], key)])]

\* the improvement computed without the guard on the baseline value
ImprovementPctUnguarded(smart_value, baseline_value) ==
    FMul(FDiv(FSub(smart_value, baseline_value), baseline_value), F(100))

\* lines 315-316
ImprovementPct(smart_value, baseline_value) ==
    IF FLt(F(0), baseline_value)
    THEN FMul(FDiv(FSub(smart_value, baseline_value), baseline_value), F(100))
    ELSE F(0)

\* lines 311-319: the result of one scenario
ScenarioResult(smart_metrics, avg_baseline) ==
    [smart |-> smart_metrics,
     baseline |-> avg_baseline,
     improvement_pct |->
         [key \in MetricKeys |-> ImprovementPct(Metric(smart_metrics, key), avg_baseline[key])]]

\* the results kept as a list: the result stored at the scenario's position
SetAtPosition(results, key, value) ==
    [h \in (DOMAIN results) \cup {Cardinality(DOMAIN results) + 1} |->
        IF h = Cardinality(DOMAIN results) + 1 THEN value ELSE results[h]]

\* results[n_hubs] = result
SetItem(results, key, value) ==
    [h \in (DOMAIN results) \cup {key} |-> IF h = key THEN value ELSE results[h]]

\* the reports of the scenarios before kept in the list
KeptList(baseline_metrics_list) == baseline_metrics_list

\* line 294: baseline_metrics_list = []
EmptyList(baseline_metrics_list) == <<>>

\* the locals at the entry of the call; calls is the log of the calls made
AbEnter(n_hubs_list, n_iterations, seed) ==
    [op |-> "run_ab_simulation",
     n_hubs_list |-> n_hubs_list, n_iterations |-> n_iterations, seed |-> seed,
     results |-> <<>>, k |-> 1, n_hubs |-> 0,
     smart_locs |-> <<>>, smart_metrics |-> NoResult,
     i |-> 0, baseline_locs |-> <<>>, baseline_metrics_list |-> <<>>,
     calls |-> <<>>]

\* an entry of the log of calls
CallEntry(op, args, hub_locations, result) ==
    [op |-> op, args |-> args, hub_locations |-> hub_locations, ret |-> result]

\* the table the call has worked on last taken for the caller's: the
\* reprojection or the normalisation done in place
WorkingTable(locals) ==
    IF "barrios_m" \in DOMAIN locals THEN locals.barrios_m
    ELSE [locals.arg_gdf EXCEPT !.rows =
             [z \in 1..Len(@) |-> [@[z] EXCEPT ![locals.weight_column] = locals.weights[z]]]]

\* the caller's table after a call, given the locals of the call: the object
\* handed over as argument; set_crs and to_crs (lines 206, 209) and fillna
\* and the division (lines 159, 162) bind new objects to the local names
CallersTable(locals) == locals.arg_gdf

-----------------------------------------------------------------------------
(* The session of run_ab_simulation calls, one call made by the run per step *)

\* weights on the last zone only, and on the first zone only
OnLastZone(n) == [i \in 1..n |-> IF i = n THEN F(MaxWeight) ELSE F(0)]
OnFirstZone(n) == [i \in 1..n |-> IF i = 1 THEN F(MaxWeight) ELSE F(0)]

\* per layout a table with the demand far from the vehicles; for the layouts
\* of three zones one with all columns alike and one without vehicles
AbTables ==
    UNION { { Table(CrsOf(g), g, OnLastZone(Len(g)), OnFirstZone(Len(g)), OnLastZone(Len(g))) }
            \cup (IF Len(g) < 3 THEN {}
                  ELSE { Table(CrsOf(g), g, FixedColumn(Len(g)),
                               WithHoles(FixedColumn(Len(g))), FixedColumn(Len(g))),
                         Table(CrsOf(g), g, FixedColumn(Len(g)), [i \in 1..Len(g) |-> F(0)],
                               FixedColumn(Len(g))) })
            : g \in Layouts }

\* lists of distinct hub counts
HubCountLists == { <<1>>, <<MaxHubs>>, <<1, MaxHubs>>, <<MaxHubs, 1>> }

InitAb ==
    /\ gdf \in AbTables
    /\ pc = "idle"
    /\ ab = NoLocals /\ ev = NoLocals /\ km = NoLocals /\ bl = NoLocals
    /\ ret = NoResult
    /\ history = <<>>
    /\ entropy = 0

\* the caller calls run_ab_simulation(gdf, n_hubs_list, n_iterations, seed);
\* its second call repeats the iterations and the seed of the first
AbCall ==
    /\ pc \in {"idle", "done"} /\ Len(history) < 2
    /\ \E n_hubs_list \in HubCountLists :
       \E n_iterations \in (IF history = <<>> THEN 0..MaxIterations
                            ELSE {history[1].n_iterations}) :
       \E seed \in (IF history = <<>> THEN Seeds ELSE {history[1].seed}) :
          ab' = AbEnter(n_hubs_list, n_iterations, seed)
    /\ pc' = "ab_scenario"
    /\ ret' = NoResult
    /\ UNCHANGED <<gdf, ev, km, bl, history, entropy>>

AbRecord(a, r) ==
    [op |-> a.op, n_hubs_list |-> a.n_hubs_list, n_iterations |-> a.n_iterations,
     seed |-> a.seed, ret |-> r]

\* an exception of a call leaves the run
AbRaise(a, e) ==
    /\ ab' = a
    /\ ret' = e
    /\ history' = RecordCall(history, AbRecord(a, e))
    /\ pc' = "done"

\* lines 288-290: the next hub count, its smart locations
AbSmart ==
    /\ pc = "ab_scenario" /\ ab.k <= Len(ab.n_hubs_list)
    /\ \E n_hubs \in {ab.n_hubs_list[ab.k]} :
       \E r \in {GenerateSmartLocations(gdf, n_hubs)} :
       \E a \in {[ab EXCEPT !.n_hubs = n_hubs,
                            !.calls = Append(@, CallEntry("generate_smart_locations",
                                                          <<n_hubs>>, <<>>, r))]} :
          IF IsError(r) THEN AbRaise(a, r)
          ELSE /\ ab' = [a EXCEPT !.smart_locs = r.value]
               /\ pc' = "ab_smart_eval"
               /\ UNCHANGED <<ret, history>>
    /\ UNCHANGED <<gdf, ev, km, bl, entropy>>

\* line 291: the smart locations evaluated; line 294
AbSmartEval ==
    /\ pc = "ab_smart_eval"
    /\ \E r \in {EvaluateCoverage(ab.smart_locs, gdf, COVERAGE_RADIUS_M)} :
       \E a \in {[ab EXCEPT !.calls = Append(@, CallEntry("evaluate_coverage",
                                                         <<>>, ab.smart_locs, r))]} :
          IF IsError(r) THEN AbRaise(a, r)
          ELSE /\ ab' = [a EXCEPT !.smart_metrics = r.value,
                                  !.i = 0, !.baseline_metrics_list = EmptyList(@)]
               /\ pc' = "ab_baseline"
               /\ UNCHANGED <<ret, history>>
    /\ gdf' = CallersTable(EvalEnter(gdf, ab.smart_locs, COVERAGE_RADIUS_M))
    /\ UNCHANGED <<ev, km, bl, entropy>>

\* lines 295-300: the next baseline draw
AbBaselineDraw ==
    /\ pc = "ab_baseline" /\ ab.i < ab.n_iterations
    /\ \E seed \in {IterationSeed(ab.seed, ab.i)} :
       \E r \in {GeneratePopulationWeightedLocations(gdf, ab.n_hubs, COL_TOTAL_VEHICLES, seed)} :
       \E a \in {[ab EXCEPT !.calls = Append(@,
                       CallEntry("generate_population_weighted_locations",
                                 <<ab.n_hubs, seed>>, <<>>, r))]} :
          IF IsError(r) THEN AbRaise(a, r)
          ELSE /\ ab' = [a EXCEPT !.baseline_locs = r.value]
               /\ pc' = "ab_baseline_eval"
               /\ UNCHANGED <<ret, history>>
    /\ gdf' = CallersTable(
                  [GenEnter(gdf, ab.n_hubs, COL_TOTAL_VEHICLES, IterationSeed(ab.seed, ab.i))
                      EXCEPT !.weights = Normalize(@)])
    /\ UNCHANGED <<ev, km, bl, entropy>>

\* lines 301-302: the draw evaluated, its report kept
AbBaselineEval ==
    /\ pc = "ab_baseline_eval"
    /\ \E r \in {EvaluateCoverage(ab.baseline_locs, gdf, COVERAGE_RADIUS_M)} :
       \E a \in {[ab EXCEPT !.calls = Append(@, CallEntry("evaluate_coverage",
                                                         <<>>, ab.baseline_locs, r))]} :
          IF IsError(r) THEN AbRaise(a, r)
          ELSE /\ ab' = [a EXCEPT !.baseline_metrics_list = Append(@, r.value),
                                  !.i = @ + 1]
               /\ pc' = "ab_baseline"
               /\ UNCHANGED <<ret, history>>
    /\ gdf' = CallersTable(EvalEnter(gdf, ab.baseline_locs, COVERAGE_RADIUS_M))
    /\ UNCHANGED <<ev, km, bl, entropy>>

\* lines 304-319: the baseline reports averaged, the result of the scenario
\* written; baseline_metrics_list[0] of an empty list raises
AbAggregate ==
    /\ pc = "ab_baseline" /\ ab.i >= ab.n_iterations
    /\ IF Len(ab.baseline_metrics_list) = 0
       THEN AbRaise(ab, Error("IndexError"))
       ELSE /\ \E result \in {ScenarioResult(ab.smart_metrics,
                                             AverageReport(ab.baseline_metrics_list))} :
                  ab' = [ab EXCEPT !.results = SetItem(@, ab.n_hubs, result),
                                   !.k = @ + 1,
                                   !.calls = Append(@, CallEntry("aggregate", <<ab.n_hubs>>,
                                                                 <<>>, Ok(result)))]
            /\ pc' = "ab_scenario"
            /\ UNCHANGED <<ret, history>>
    /\ UNCHANGED <<gdf, ev, km, bl, entropy>>

\* line 321
AbReturn ==
    /\ pc = "ab_scenario" /\ ab.k > Len(ab.n_hubs_list)
    /\ ret' = Ok(ab.results)
    /\ history' = RecordCall(history, AbRecord(ab, ret'))
    /\ pc' = "done"
    /\ UNCHANGED <<gdf, ab, ev, km, bl, entropy>>

NextAb ==
    \/ AbCall \/ AbSmart \/ AbSmartEval \/ AbBaselineDraw \/ AbBaselineEval
    \/ AbAggregate \/ AbReturn

SpecAb == InitAb /\ [][NextAb]_vars

-----------------------------------------------------------------------------
(* Properties of run_ab_simulation *)

\* the scenarios whose result the running (or last) run has written
Written == IF ab = NoLocals THEN {} ELSE DOMAIN ab.results

\* C12: for every hub count whose result is written and each of the four
\* metrics, improvement_pct is finite and times the baseline value equals
\* (smart value - baseline value) * 100 when the averaged baseline value is
\* not 0, and is exactly 0 when the averaged baseline value is 0.
C12_ImprovementPct ==
    \A n_hubs \in Written : \A key \in MetricKeys :
        LET result == ab.results[n_hubs]
            smart_value == Metric(result.smart, key)
            baseline_value == result.baseline[key]
            improvement == result.improvement_pct[key]
        IN  /\ IsFinite(improvement)
            /\ baseline_value # F(0) =>
                  FMul(improvement, baseline_value) =
                      FMul(FSub(smart_value, baseline_value), F(100))
            /\ baseline_value = F(0) => improvement = F(0)

\* a scenario whose baseline covers no demand while the smart placement
\* covers some: the improvement reported is 0; another metric of the same
\* scenario has a baseline that is not 0
C12_Witness ==
    \E n_hubs \in Written :
        /\ ab.results[n_hubs].baseline["demand_covered"] = F(0)
        /\ FLt(F(0), ab.results[n_hubs].smart["demand_covered"])
        /\ ab.results[n_hubs].improvement_pct["demand_covered"] = F(0)
        /\ ab.results[n_hubs].baseline["avg_coverage"] # F(0)
        /\ ab.results[n_hubs].improvement_pct["avg_coverage"] # F(0)

\* the calls of the log without their values
Skeleton(calls) == [j \in 1..Len(calls) |-> <<calls[j].op, calls[j].args>>]

\* the calls one scenario is to make, in their order
RECURSIVE ExpectedDraws(_, _, _, _)
ExpectedDraws(n_hubs, seed, i, n_iterations) ==
    IF i >= n_iterations THEN <<>>
    ELSE << <<"generate_population_weighted_locations", <<n_hubs, seed + i>>>>,
            <<"evaluate_coverage", <<>>>> >>
         \o ExpectedDraws(n_hubs, seed, i + 1, n_iterations)

ExpectedScenario(n_hubs, seed, n_iterations) ==
    << <<"generate_smart_locations", <<n_hubs>>>>, <<"evaluate_coverage", <<>>>> >>
    \o ExpectedDraws(n_hubs, seed, 0, n_iterations)
    \o << <<"aggregate", <<n_hubs>>>> >>

RECURSIVE ExpectedCalls(_, _, _)
ExpectedCalls(n_hubs_list, seed, n_iterations) ==
    IF n_hubs_list = <<>> THEN <<>>
    ELSE ExpectedScenario(Head(n_hubs_list), seed, n_iterations)
         \o ExpectedCalls(Tail(n_hubs_list), seed, n_iterations)

IsPrefix(a, b) == Len(a) <= Len(b) /\ \A j \in 1..Len(a) : a[j] = b[j]

BaselineEvaluations(n_hubs) ==
    {j \in 2..Len(ab.calls) :
        /\ ab.calls[j].op = "evaluate_coverage"
        /\ ab.calls[j - 1].op = "generate_population_weighted_locations"
        /\ ab.calls[j - 1].args[1] = n_hubs}

\* C14: for every hub count whose result is written, the run has made
\* `iterations` (>= 1) baseline evaluations for it, and each metric of the
\* baseline report times `iterations` equals the sum of that metric over
\* these reports, taken as a set (in no particular order).
C14_BaselineIsMean ==
    \A n_hubs \in Written : \A key \in MetricKeys :
        LET J == BaselineEvaluations(n_hubs)
        IN  /\ Cardinality(J) = ab.n_iterations /\ ab.n_iterations >= 1
            /\ FMul(ab.results[n_hubs].baseline[key], F(ab.n_iterations)) =
                   SumOver([j \in J |-> Metric(ab.calls[j].ret.value, key)], J)

\* two baseline reports that differ in a metric were averaged
C14_Witness ==
    \E n_hubs \in Written :
        LET J == BaselineEvaluations(n_hubs)
        IN  /\ Cardinality(J) = 2
            /\ \E j1, j2 \in J :
                  /\ j1 < j2
                  /\ ab.calls[j1].ret.value.avg_coverage # ab.calls[j2].ret.value.avg_coverage
                  /\ ab.results[n_hubs].baseline["avg_coverage"] #
                         ab.calls[j2].ret.value.avg_coverage

\* C15: the result a run has written for a hub count is the result the
\* first run of the session returned for that hub count, whenever the two
\* runs have the same table, iterations and seed: whatever the other hub
\* counts of the two lists and whatever their order.
C15_ScenariosIndependent ==
    (ab # NoLocals /\ history # <<>> /\ ~IsError(history[1].ret)
       /\ ab.n_iterations = history[1].n_iterations /\ ab.seed = history[1].seed) =>
        \A n_hubs \in Written \cap DOMAIN history[1].ret.value :
            ab.results[n_hubs] = history[1].ret.value[n_hubs]

\* the first run took the hub counts 1 and MaxHubs, the second MaxHubs alone,
\* both with two iterations; the results for MaxHubs agree and differ from
\* those for 1
C15_Witness ==
    /\ pc = "done" /\ Len(history) = 2
    /\ history[1].n_hubs_list = <<1, MaxHubs>> /\ history[2].n_hubs_list = <<MaxHubs>>
    /\ history[1].n_iterations = 2
    /\ ~IsError(history[1].ret) /\ ~IsError(history[2].ret)
    /\ history[1].ret.value[MaxHubs] = history[2].ret.value[MaxHubs]
    /\ history[1].ret.value[MaxHubs] # history[1].ret.value[1]

-----------------------------------------------------------------------------
(* More properties of weighted_kmeans_optimization *)

\* the least and the largest value of coordinate d over the points
CoordMin(X, d) ==
    CHOOSE v \in {X[i][d] : i \in 1..Len(X)} : \A i \in 1..Len(X) : FLe(v, X[i][d])
CoordMax(X, d) ==
    CHOOSE v \in {X[i][d] : i \in 1..Len(X)} : \A i \in 1..Len(X) : FLe(X[i][d], v)

\* C17: a call with N >= 1 points and 1 <= k <= N raises no error and
\* returns exactly k centres; each coordinate of each centre lies between
\* the least and the largest value of that coordinate over the points.
C17_CentresInBoundingRegion ==
    (KMeansDone /\ Len(km.coordinates) >= 1
       /\ 1 <= km.arg_n_clusters /\ km.arg_n_clusters <= Len(km.coordinates)) =>
        /\ ~IsError(ret)
        /\ Len(ret.value) = km.arg_n_clusters
        /\ \A j \in 1..Len(ret.value) : \A d \in 1..2 :
              /\ FLe(CoordMin(km.coordinates, d), ret.value[j][d])
              /\ FLe(ret.value[j][d], CoordMax(km.coordinates, d))

\* two clusters over three zones: one centre is the mean of two zones and
\* lies strictly between the points
C17_Witness ==
    /\ KMeansDone /\ ~IsError(ret)
    /\ Len(km.coordinates) = 3 /\ km.arg_n_clusters = 2
    /\ \E j \in 1..2 :
          /\ \A i \in 1..3 : ret.value[j] # km.coordinates[i]
          /\ FLt(CoordMin(km.coordinates, 2), ret.value[j][2])
          /\ FLt(ret.value[j][2], CoordMax(km.coordinates, 2))

-----------------------------------------------------------------------------
(* The session of repeated weighted_kmeans_optimization calls *)

\* the caller calls weighted_kmeans_optimization on the zones of its table
KMeansCallOnZones ==
    /\ pc = "idle" /\ history = <<>>
    /\ \E weights \in WeightVectors(Len(gdf.rows)) :
       \E n_clusters \in 1 .. Len(gdf.rows) :
          km' = KMeansEnter(Coordinates(gdf), weights, n_clusters,
                            KMEANS_RANDOM_STATE, KMEANS_N_INIT)
    /\ pc' = "km_clamp"
    /\ UNCHANGED <<gdf, ab, ev, bl, ret, history, entropy>>

\* other code of the process draws from the entropy of the operating system
OtherCodeDraws ==
    /\ pc = "done" /\ Len(history) = 1
    /\ entropy' = (entropy + 1) % EntropyStates
    /\ UNCHANGED <<gdf, pc, ab, ev, km, bl, ret, history>>

\* the caller repeats its call with the same arguments
KMeansCallAgain ==
    /\ pc = "done" /\ Len(history) = 1
    /\ km' = KMeansEnter(history[1].coordinates, history[1].weights,
                         history[1].n_clusters, km.random_state, km.n_init)
    /\ pc' = "km_clamp"
    /\ UNCHANGED <<gdf, ab, ev, bl, ret, history, entropy>>

NextKMeansRepeat ==
    \/ KMeansCallOnZones \/ KMeansClamp \/ KMeansNonNegative \/ KMeansUniformIfZero
    \/ KMeansReturn \/ OtherCodeDraws \/ KMeansCallAgain

SpecKMeansRepeat == InitKMeans /\ [][NextKMeansRepeat]_vars

\* C18: a call of weighted_kmeans_optimization and a later call with the
\* same coordinates, weights and number of clusters (the random seed and
\* the restart count being those of the configuration) return the same
\* centres in the same order, whatever entropy the process has drawn in
\* between.
C18_SameSeedSameCentres ==
    (KMeansDone /\ Len(history) = 2
       /\ history[1].coordinates = history[2].coordinates
       /\ history[1].weights = history[2].weights
       /\ history[1].n_clusters = history[2].n_clusters) =>
        history[1].ret = history[2].ret

\* two calls for two clusters over three zones, the entropy source having
\* moved in between, returned the same two distinct centres
C18_Witness ==
    /\ KMeansDone /\ Len(history) = 2 /\ entropy # 0
    /\ Len(history[1].coordinates) = 3 /\ history[1].n_clusters = 2
    /\ ~IsError(history[1].ret)
    /\ history[1].ret = history[2].ret
    /\ history[1].ret.value[1] # history[1].ret.value[2]

-----------------------------------------------------------------------------
(* Zones with an invalid geometry *)

\* the zones of the evaluated table whose polygon encloses no area
ZeroAreaZones(e) == {z \in Zones(e) : e.barrio_areas[z] = F(0)}

\* C19: an evaluation of a table holding a zone of zero area ends in a
\* data-integrity error and hands no coverage report to the caller.
C19_InvalidGeometryFails ==
    (EvalDone /\ ZeroAreaZones(ev) # {}) => IsError(ret)

-----------------------------------------------------------------------------
(* evaluate_coverage called with a radius of the caller's choice *)

\* a radius, in metres, that reaches across the whole strip from any hub site
WideRadius == 2 * GridW * MetersPerUnit

\* the caller calls evaluate_coverage(hub_locations, gdf, radius_m)
EvalCallRadius ==
    /\ pc = "idle" /\ history = <<>>
    /\ \E hub_locations \in HubSets, radius_m \in {COVERAGE_RADIUS_M, WideRadius} :
          ev' = EvalEnter(gdf, hub_locations, radius_m)
    /\ pc' = "ev_loop"
    /\ UNCHANGED <<gdf, ab, km, bl, ret, history, entropy>>

NextEvalRadius == EvalCallRadius \/ EvalHub \/ EvalReturn

SpecEvalRadius == InitEval /\ [][NextEvalRadius]_vars

\* every zone has a positive area and lies entirely inside every hub's disk
EveryDiskHoldsEveryZone(e) ==
    /\ Zones(e) = ValidZones(e)
    /\ \A z \in Zones(e) : \A h \in Hubs(e) :
          Intersection(e.barrios_m.rows[z].geometry, e.buffers[h]).cells
              = e.barrios_m.rows[z].geometry.cells

\* the sum of a weight column of the evaluated table is positive
PositiveTotal(e, col) ==
    /\ col \in e.gdf_barrios.columns
    /\ FLt(F(0), SumSkipNa([z \in Zones(e) |-> e.gdf_barrios.rows[z][col]]))

\* C20 as stated: when every hub disk fully contains every zone, the report
\* counts every zone as covered and gives 100 for the average coverage, the
\* covered demand and the covered population, whatever the weights are.
C20_AllMetricsMaximal ==
    (EvalDone /\ EveryDiskHoldsEveryZone(ev)) =>
        /\ ret.covered_neighborhoods = Len(ev.barrios_m.rows)
        /\ ret.avg_coverage = F(100)
        /\ ret.demand_covered = F(100)
        /\ ret.population_covered = F(100)

\* C20: when every hub disk fully contains every zone, the report counts
\* every zone as covered and gives an average coverage of 100; the covered
\* demand is 100 when the demand column is present with a positive total and
\* 0 otherwise, and likewise the covered population for the vehicle column.
C20_MaximalWherePositiveTotal ==
    (EvalDone /\ EveryDiskHoldsEveryZone(ev)) =>
        /\ ret.covered_neighborhoods = Len(ev.barrios_m.rows)
        /\ ret.avg_coverage = F(100)
        /\ ret.demand_covered =
              IF PositiveTotal(ev, COL_DEMAND_SCORE) THEN F(100) ELSE F(0)
        /\ ret.population_covered =
              IF PositiveTotal(ev, COL_TOTAL_VEHICLES) THEN F(100) ELSE F(0)

\* two hubs whose wide disks hold all of three zones: all four metrics are
\* maximal on a table with demand and vehicles somewhere
C20_Witness ==
    /\ EvalDone /\ EveryDiskHoldsEveryZone(ev)
    /\ Len(ev.buffers) = 2 /\ Len(ev.barrios_m.rows) = 3
    /\ ev.buffers[1].radius = WideRadius
    /\ ret.covered_neighborhoods = 3 /\ ret.avg_coverage = F(100)
    /\ ret.demand_covered = F(100) /\ ret.population_covered = F(100)

-----------------------------------------------------------------------------
(* run_ab_simulation on tables whose unmet demand differs from the demand
   score, on a table of a single zone, and with repeated hub counts *)

\* the demand score: most of it on the first zone, some on the last
MostlyOnFirstZone(n) ==
    [i \in 1..n |-> IF i = 1 THEN F(MaxWeight) ELSE IF i = n THEN F(1) ELSE F(0)]

\* the unmet demand of that score when the supply of the first zone meets
\* its demand: the score less the supply impact, clipped at 0
UnmetOf(demand) == [i \in 1..Len(demand) |-> IF i = 1 THEN F(0) ELSE demand[i]]

\* per layout a table whose first zone is served; and the tables of one
\* zone, with a vehicle and without any
ScenarioTables ==
    { Table(CrsOf(g), g, MostlyOnFirstZone(Len(g)), OnFirstZone(Len(g)),
            UnmetOf(MostlyOnFirstZone(Len(g)))) : g \in Layouts }
    \cup { Table(TARGET_CRS, <<Polygon(0 .. (GridW - 1))>>, <<F(1)>>, <<F(v)>>, <<F(1)>>)
            : v \in 0..1 }

\* hub counts repeated in the list, and hub counts above the number of zones
\* of the smallest table
ScenarioLists == { <<1>>, <<MaxHubs>>, <<1, 1>>, <<MaxHubs, 1, MaxHubs>> }

InitScenarios ==
    /\ gdf \in ScenarioTables
    /\ pc = "idle"
    /\ ab = NoLocals /\ ev = NoLocals /\ km = NoLocals /\ bl = NoLocals
    /\ ret = NoResult
    /\ history = <<>>
    /\ entropy = 0

\* the caller calls run_ab_simulation(gdf, n_hubs_list, n_iterations, seed)
AbCallScenarios ==
    /\ pc = "idle" /\ history = <<>>
    /\ \E n_hubs_list \in ScenarioLists, n_iterations \in 0..MaxIterations, seed \in Seeds :
          ab' = AbEnter(n_hubs_list, n_iterations, seed)
    /\ pc' = "ab_scenario"
    /\ ret' = NoResult
    /\ UNCHANGED <<gdf, ev, km, bl, history, entropy>>

\* the caller calls generate_population_weighted_locations(gdf, n_hubs,
\* seed=seed) itself, for no hub up to more hubs than any table has zones
GenCallScenarios ==
    /\ pc = "idle" /\ history = <<>>
    /\ \E n_hubs \in 0 .. (MaxHubs + 2), seed \in Seeds :
          /\ ret' = GeneratePopulationWeightedLocations(gdf, n_hubs, COL_TOTAL_VEHICLES, seed)
          /\ history' = RecordCall(history,
                             GenRecord(GenEnter(gdf, n_hubs, COL_TOTAL_VEHICLES, seed), ret'))
    /\ pc' = "done"
    /\ UNCHANGED <<gdf, ab, ev, km, bl, entropy>>

NextScenarios ==
    \/ AbCallScenarios \/ AbSmart \/ AbSmartEval \/ AbBaselineDraw \/ AbBaselineEval
    \/ AbAggregate \/ AbReturn \/ GenCallScenarios

SpecScenarios == InitScenarios /\ [][NextScenarios]_vars

\* the places in the log of the generate_smart_locations calls that returned
SmartCalls ==
    IF ab = NoLocals THEN {}
    ELSE {j \in 1..Len(ab.calls) :
             ab.calls[j].op = "generate_smart_locations" /\ ~IsError(ab.calls[j].ret)}

\* the mean of the zones' coordinates <<lat, lng>> weighted by a column
\* holds for the point c: c * sum(w) = sum(w * coordinate), per coordinate
IsWeightedMean(c, tbl, col) ==
    \A d \in 1..2 :
        FMul(c[d], SumSkipNa(Column(tbl, col))) =
            SumSkipNa([z \in 1..Len(tbl.rows) |->
                          FMul(tbl.rows[z][col], Coordinates(tbl)[z][d])])

\* C21 as stated: the hubs of every scenario are the result of clustering
\* the zones with the zones' Demand_Score, the weight of demand_covered; a
\* single hub lies at the mean of the zones' coordinates weighted by it.
C21_ClusteredWithDemandScore ==
    \A j \in SmartCalls :
        /\ ab.calls[j].ret =
              WeightedKMeansOptimization(Coordinates(gdf), Column(gdf, COL_DEMAND_SCORE),
                                         ab.calls[j].args[1],
                                         KMEANS_RANDOM_STATE, KMEANS_N_INIT)
        /\ (Len(ab.calls[j].ret.value) = 1
            /\ FLt(F(0), SumSkipNa(Column(gdf, COL_DEMAND_SCORE))))
              => IsWeightedMean(ab.calls[j].ret.value[1], gdf, COL_DEMAND_SCORE)

\* C21: the hubs of every scenario are the result of clustering the zones
\* with the zones' Unmet_Demand (missing values as 0), which is another
\* column than the Demand_Score of demand_covered; a single hub lies at the
\* mean of the zones' coordinates weighted by the unmet demand.
C21_ClusteredWithUnmetDemand ==
    \A j \in SmartCalls :
        /\ ab.calls[j].ret =
              WeightedKMeansOptimization(Coordinates(gdf), Column(gdf, COL_UNMET_DEMAND),
                                         ab.calls[j].args[1],
                                         KMEANS_RANDOM_STATE, KMEANS_N_INIT)
        /\ (Len(ab.calls[j].ret.value) = 1
            /\ FLt(F(0), SumSkipNa(Column(gdf, COL_UNMET_DEMAND))))
              => IsWeightedMean(ab.calls[j].ret.value[1], gdf, COL_UNMET_DEMAND)

\* a scenario of one hub on a table of three zones whose demand score lies
\* mostly on the first zone and whose unmet demand lies on the last zone
\* only: the hub is the centroid of the last zone
C21_Witness ==
    /\ pc = "done" /\ ab # NoLocals /\ ~IsError(ret)
    /\ Len(gdf.rows) = 3
    /\ Column(gdf, COL_UNMET_DEMAND) # Column(gdf, COL_DEMAND_SCORE)
    /\ \E j \in SmartCalls :
          /\ ab.calls[j].args = <<1>>
          /\ ab.calls[j].ret.value = << <<gdf.rows[3].lat, gdf.rows[3].lng>> >>
          /\ ~IsWeightedMean(ab.calls[j].ret.value[1], gdf, COL_DEMAND_SCORE)

\* the places in the log of the calls of operation op that returned
ReturnedCalls(op) ==
    IF ab = NoLocals THEN {}
    ELSE {j \in 1..Len(ab.calls) : ab.calls[j].op = op /\ ~IsError(ab.calls[j].ret)}

Min(a, b) == IF a <= b THEN a ELSE b

\* C22: a call of generate_population_weighted_locations for K >= 0 hubs
\* that returns, made by the caller or by a run, returns exactly K locations,
\* also when K exceeds the number N of zones; every smart placement of a run
\* returns min(K, N) locations; the evaluation that follows each call is
\* made on the locations the call returned, so with K > N the smart report
\* is computed from N hubs and every baseline report from K hubs.
C22_BaselineNotClamped ==
    /\ (pc = "done" /\ ab = NoLocals /\ ~IsError(ret)) =>
          Len(ret.value) = LastCall.n_hubs
    /\ \A j \in ReturnedCalls("generate_population_weighted_locations") :
          /\ Len(ab.calls[j].ret.value) = ab.calls[j].args[1]
          /\ j < Len(ab.calls) =>
                /\ ab.calls[j + 1].op = "evaluate_coverage"
                /\ ab.calls[j + 1].hub_locations = ab.calls[j].ret.value
    /\ \A j \in ReturnedCalls("generate_smart_locations") :
          /\ Len(ab.calls[j].ret.value) = Min(ab.calls[j].args[1], Len(gdf.rows))
          /\ j < Len(ab.calls) =>
                /\ ab.calls[j + 1].op = "evaluate_coverage"
                /\ ab.calls[j + 1].hub_locations = ab.calls[j].ret.value

\* a run for more hubs than the table has zones has returned: its smart
\* report was computed from one hub, its baseline reports from MaxHubs hubs
C22_Witness ==
    /\ pc = "done" /\ ab # NoLocals /\ ~IsError(ret)
    /\ Len(gdf.rows) = 1 /\ ab.n_hubs_list = <<MaxHubs>> /\ ab.n_iterations = 2
    /\ Len(ab.calls[2].hub_locations) = 1
    /\ Len(ab.calls[4].hub_locations) = MaxHubs
    /\ Len(ab.calls[6].hub_locations) = MaxHubs

\* a call of run_ab_simulation has ended
AbDone == pc = "done" /\ ab # NoLocals

\* the hub counts of a list, as a set
HubCounts(n_hubs_list) == {n_hubs_list[j] : j \in 1..Len(n_hubs_list)}

\* C24: a run with iterations = 0 (and a non-empty list of hub counts) never
\* writes a result; it ends with the IndexError of the aggregation of the
\* first scenario, after that scenario's smart placement and its evaluation
\* and nothing else, and hands no mapping to the caller. A run with
\* iterations >= 1 on a table whose vehicle weights have a positive sum
\* returns a mapping whose keys are exactly the distinct hub counts of the list.
C24_ZeroIterationsRaise ==
    /\ (ab # NoLocals /\ ab.n_iterations = 0) =>
          /\ ab.results = <<>> /\ ab.k = 1
          /\ pc = "done" =>
                /\ ret = Error("IndexError")
                /\ Skeleton(ab.calls) =
                      << <<"generate_smart_locations", <<ab.n_hubs_list[1]>>>>,
                         <<"evaluate_coverage", <<>>>> >>
    /\ (AbDone /\ ab.n_iterations >= 1 /\ ~ZeroWeightSum(gdf, COL_TOTAL_VEHICLES)) =>
          /\ ~IsError(ret)
          /\ DOMAIN ret.value = HubCounts(ab.n_hubs_list)

\* a run without iterations over a list of three hub counts, on a table
\* without vehicles, has ended in the error of the first aggregation
C24_Witness ==
    /\ AbDone
    /\ ab.n_iterations = 0 /\ Len(ab.n_hubs_list) = 3
    /\ ZeroWeightSum(gdf, COL_TOTAL_VEHICLES)
    /\ ret = Error("IndexError") /\ Len(ab.calls) = 2

-----------------------------------------------------------------------------
(* The zones the baseline generator draws *)

\* the location <<lat, lng>> is a candidate accepted in the interior of g
AcceptedIn(g, loc) ==
    \E x \in g.bounds[1] .. g.bounds[3], y \in g.bounds[2] .. g.bounds[4] :
        loc = <<F(y), F(x)>> /\ Contains(g, x, y)

\* the weight of zone z in the column the call reads, as the table holds it
RawWeight(b, z) == b.arg_gdf.rows[z][b.weight_column]

\* C23: in a call of generate_population_weighted_locations whose weight
\* column has no negative value and a positive sum, every zone drawn has a
\* strictly positive weight (never 0, never a missing value), and every
\* location returned is, in the order of the draws, a point accepted in the
\* interior of the drawn zone's polygon or that zone's centroid.
C23_DrawnZonesHavePositiveWeight ==
    (bl # NoLocals /\ bl.op = "generate_population_weighted_locations") =>
        /\ \A j \in 1..Len(bl.sampled_indices) :
              /\ IsFinite(RawWeight(bl, bl.sampled_indices[j]))
              /\ FLt(F(0), RawWeight(bl, bl.sampled_indices[j]))
        /\ \A j \in 1..Len(bl.locations) :
              LET g == bl.arg_gdf.rows[bl.sampled_indices[j]][COL_GEOMETRY]
              IN  \/ AcceptedIn(g, bl.locations[j])
                  \/ bl.locations[j] = <<Centroid(g)[2], Centroid(g)[1]>>
        /\ (pc = "done" /\ ~IsError(ret)) =>
              /\ ret.value = bl.locations
              /\ Len(bl.locations) = Len(bl.sampled_indices)

\* a call on a table holding zones of weight 0 and of missing weight beside
\* a zone of positive weight has returned two locations, both of that zone
C23_Witness ==
    /\ pc = "done" /\ bl # NoLocals /\ bl.op = "generate_population_weighted_locations"
    /\ ~IsError(ret) /\ Len(ret.value) = 2
    /\ \E z \in 1..Len(gdf.rows) : ~IsFinite(RawWeight(bl, z))
    /\ \E z \in 1..Len(gdf.rows) : RawWeight(bl, z) = F(0)
    /\ \A j \in 1..2 : AcceptedIn(bl.arg_gdf.rows[bl.sampled_indices[j]][COL_GEOMETRY],
                                   ret.value[j])

-----------------------------------------------------------------------------
(* evaluate_coverage called twice on one table, with rearranged hubs *)

Reverse(s) == [i \in 1..Len(s) |-> s[Len(s) + 1 - i]]

\* the hub list in another order, with its first hub repeated, and with
\* one more hub at any site
Rearranged(hub_locations) ==
    { Reverse(hub_locations), Append(hub_locations, hub_locations[1]) }
    \cup { Append(hub_locations, site) : site \in HubSites }

\* the caller evaluates a rearranged hub list on the same table
EvalCallRearranged ==
    /\ pc = "done" /\ Len(history) = 1
    /\ \E hub_locations \in Rearranged(history[1].hub_locations) :
          ev' = EvalEnter(gdf, hub_locations, COVERAGE_RADIUS_M)
    /\ pc' = "ev_loop"
    /\ UNCHANGED <<gdf, ab, km, bl, ret, history, entropy>>

InitEvalHubs ==
    /\ gdf \in AbTables
    /\ pc = "idle"
    /\ ab = NoLocals /\ ev = NoLocals /\ km = NoLocals /\ bl = NoLocals
    /\ ret = NoResult
    /\ history = <<>>
    /\ entropy = 0

NextEvalHubs == EvalCall \/ EvalHub \/ EvalReturn \/ EvalCallRearranged

SpecEvalHubs == InitEvalHubs /\ [][NextEvalHubs]_vars

\* the set of the hubs of a list
HubSet(hub_locations) == {hub_locations[h] : h \in 1..Len(hub_locations)}

\* no metric of report r is larger than in report s
NoMetricAbove(r, s) ==
    /\ r.covered_neighborhoods <= s.covered_neighborhoods
    /\ FLe(r.avg_coverage, s.avg_coverage)
    /\ FLe(r.demand_covered, s.demand_covered)
    /\ FLe(r.population_covered, s.population_covered)

\* C25: of two evaluations of one table (of non-negative weights), two hub
\* lists holding the same set of hubs, in any order and with any repetition,
\* get the same four metrics; a hub list holding all hubs of another and
\* more gets, for every zone, a coverage fraction that is not smaller, and
\* none of the four metrics is smaller.
C25_DependsOnHubSetOnly ==
    (pc = "done" /\ Len(history) = 2) =>
        /\ HubSet(history[1].hub_locations) = HubSet(history[2].hub_locations) =>
              history[1].ret = history[2].ret
        /\ HubSet(history[1].hub_locations) \subseteq HubSet(history[2].hub_locations) =>
              /\ \A z \in 1..Len(gdf.rows) :
                    FLe(history[1].max_coverage[z], history[2].max_coverage[z])
              /\ NoMetricAbove(history[1].ret, history[2].ret)

\* two hubs evaluated in both orders gave one report, each hub covering a
\* zone the other does not reach
C25_Witness ==
    /\ pc = "done" /\ Len(history) = 2
    /\ Len(history[1].hub_locations) = 2
    /\ history[2].hub_locations = Reverse(history[1].hub_locations)
    /\ history[1].hub_locations[1] # history[1].hub_locations[2]
    /\ history[1].ret = history[2].ret
    /\ \E z \in 1..Len(gdf.rows) :
          /\ FLt(F(0), history[1].max_coverage[z])
          /\ HubFraction(ev, z, 1) = F(0)
    /\ \E z \in 1..Len(gdf.rows) :
          /\ FLt(F(0), history[1].max_coverage[z])
          /\ HubFraction(ev, z, 2) = F(0)

=============================================================================
